---------------------------- MODULE Spec2Model ----------------------------
(***************************************************************************)
(* Relocation scan/apply engine of elf/input-sections.cc.                  *)
(*                                                                         *)
(* A run draws a configuration (ctx.arg.*, the target E), scans up to      *)
(* MaxRels relocations (scan_abs_rel, scan_abs_dyn_rel, scan_pcrel_rel),   *)
(* passes the barrier between the two passes and then applies every        *)
(* word-size absolute relocation that was scanned (apply_abs_dyn_rel).     *)
(***************************************************************************)
EXTENDS Integers, Sequences, FiniteSets, Bags, TLC

(***************************************************************************)
(* Bounds of the model.                                                    *)
(***************************************************************************)
\* Number of relocations scanned in one run.
MaxRels == 2
\* Number of record_undef_error calls of one link.
MaxUndef == 4
\* Number of calls of uncompress on one section.
MaxUncompress == 2
\* Width in bits of Word<E> and of the address arithmetic (u64 in the code).
WordBits == 3

RECURSIVE Pow2(_)
Pow2(n) == IF n = 0 THEN 1 ELSE 2 * Pow2(n - 1)

WordMod == Pow2(WordBits)

\* Conversion of an integer to Word<E> / u64: the value modulo 2^width.
ToWord(x) == x % WordMod

\* Conversion of a u64 bit pattern to i64 (the r_addend field of ElfRel).
ToSigned(x) ==
  LET w == x % WordMod
  IN  IF 2 * w >= WordMod THEN w - WordMod ELSE w

(***************************************************************************)
(* Inputs: symbols, sections, files.                                       *)
(***************************************************************************)
Symbols == {"sAbs", "sAbsImp", "sLocal", "sData", "sProt", "sFunc"}

\* Symbol<E>::is_absolute()
is_absolute(sym) == sym \in {"sAbs", "sAbsImp"}

\* Symbol<E>::is_imported
is_imported(sym) == sym \in {"sAbsImp", "sData", "sProt", "sFunc"}

\* Symbol<E>::get_type()
get_type(sym) == IF sym = "sFunc" THEN "STT_FUNC" ELSE "STT_OBJECT"

\* sym.esym().st_visibility
st_visibility(sym) == IF sym = "sProt" THEN "STV_PROTECTED" ELSE "STV_DEFAULT"

\* Symbol<E>::get_dynsym_idx(): the index in .dynsym, -1 when not exported.
get_dynsym_idx(sym) ==
  CASE sym = "sAbsImp" -> 1
    [] sym = "sData"   -> 2
    [] sym = "sProt"   -> 3
    [] sym = "sFunc"   -> 4
    [] OTHER           -> -1

\* S: the address the symbol resolves to after layout.
SymAddr(sym) ==
  CASE sym = "sAbs"    -> 0
    [] sym = "sAbsImp" -> 1
    [] sym = "sLocal"  -> 6
    [] sym = "sData"   -> 5
    [] sym = "sProt"   -> 3
    [] sym = "sFunc"   -> 7

Files == {"f1", "f2"}

Sections == {"toc", "text", "rodata"}

\* InputSection<E>::file
file(isec) == IF isec = "rodata" THEN "f2" ELSE "f1"

\* InputSection<E>::name()
name(isec) ==
  CASE isec = "toc"    -> ".toc"
    [] isec = "text"   -> ".text"
    [] isec = "rodata" -> ".rodata"

\* isec.shdr().sh_flags & SHF_WRITE
SHF_WRITE(isec) == isec = "toc"

\* Whether the section participates in the RELR table.
RelrSection(isec) == isec \in {"toc", "rodata"}

\* InputSection<E>::is_relr_reloc(ctx, rel)
is_relr_reloc(isec, rel) == RelrSection(isec)

\* The relocation entries (RELA) of each section: offset in words and addend.
\* The symbol and the relocation type of an entry are drawn when it is scanned.
ElfRels(isec) ==
  IF isec = "toc"
  THEN {[r_offset |-> 0, r_addend |-> -1], [r_offset |-> 1, r_addend |-> 2]}
  ELSE IF isec = "text"
  THEN {[r_offset |-> 0, r_addend |-> 2]}
  ELSE {[r_offset |-> 1, r_addend |-> -1]}

Offsets == {0, 1}

\* Runtime address of a section after layout.
SecAddr(isec) ==
  CASE isec = "toc"    -> 0
    [] isec = "text"   -> 2
    [] isec = "rodata" -> 4

Archs == {"X86_64", "PPC64"}

NEEDS == {"NEEDS_COPYREL", "NEEDS_PLT", "NEEDS_CPLT"}

\* No entry written yet in a slot of the dynamic-relocation stream.
NoRel == [r_offset |-> -1, r_type |-> "R_NONE", r_sym |-> 0, r_addend |-> 0]

\* ElfRel<E>(offset, type, sym, addend)
ElfRel(offset, type, sym, addend) ==
  [r_offset |-> offset, r_type |-> type, r_sym |-> sym, r_addend |-> addend]

\* The last operation, before any has run.
NoOp == [op |-> "none"]

VARIABLES
  ctx,            \* ctx.arg: shared, pie, z_text, warn_textrel, z_copyreloc
  arch,           \* the target E
  flags,          \* sym.flags, per symbol
  num_dynrel,     \* file.num_dynrel, per file
  has_textrel,    \* ctx.has_textrel
  errors,         \* diagnostics sent to Error(ctx), a bag
  warnings,       \* diagnostics sent to Warn(ctx), a bag
  rels,           \* the word-size absolute relocations scanned so far
  nscan,          \* number of relocations scanned
  phase,          \* "scan" or "apply"
  reldyn_offset,  \* per file: start of its range in the stream
  dynrel,         \* per file: the append cursor
  reldyn,         \* the dynamic-relocation stream
  out,            \* the output word at each relocated location
  applied,        \* the relocations of rels already applied
  last            \* the last operation and what it computed

\* The variables of the scan and apply passes.
passVars == <<ctx, arch, flags, num_dynrel, has_textrel, errors, warnings,
              rels, nscan, phase, reldyn_offset, dynrel, reldyn, out, applied,
              last>>

\* Undefined-symbol diagnostics (record_undef_error, report_undef_errors).
VARIABLES
  undef_errors,        \* ctx.undef_errors: symbol name -> reference sites
  unresolved_symbols,  \* ctx.arg.unresolved_symbols
  diag_out,            \* the messages sent to Error(ctx) and Warn(ctx), in order
  checkpoint,          \* ctx.checkpoint() was reached
  calls,               \* the record_undef_error calls of this link
  first_link           \* calls and output of an earlier link of the same input

undefVars == <<undef_errors, unresolved_symbols, diag_out, checkpoint, calls,
               first_link>>

NoLink == [calls |-> {}, diag_out |-> << >>, linked |-> FALSE]

\* The diagnostics state of a link that never records an undefined symbol.
UndefIdle ==
  /\ undef_errors = << >>
  /\ unresolved_symbols = "UNRESOLVED_ERROR"
  /\ diag_out = << >>
  /\ checkpoint = FALSE
  /\ calls = {}
  /\ first_link = NoLink

\* One input section from its construction to write_to.
VARIABLES
  input,             \* the section in the object file: name, shdr(), bytes
  ndebug,            \* the build defines NDEBUG: assert() expands to nothing
  constructed,       \* InputSection<E>::InputSection has run
  contents,          \* InputSection::contents
  sh_size,           \* InputSection::sh_size
  compressed,        \* InputSection::compressed
  uncompressed,      \* InputSection::uncompressed
  string_pool,       \* number of buffers in ctx.string_pool
  outcome,           \* "running", the message of a Fatal(ctx), or "abort"
  wpc,               \* position of write_to: "idle", "apply", "done"
  uncompress_calls   \* number of calls of uncompress so far

secVars == <<input, ndebug, constructed, contents, sh_size, compressed,
             uncompressed, string_pool, outcome, wpc, uncompress_calls>>

\* The bytes of a section and what a reader of its header and of its zlib
\* stream finds in them.
Bytes(data, magic, size_field, ch_type, stream_ok, inflated) ==
  [data |-> data, magic |-> magic, size_field |-> size_field,
   ch_type |-> ch_type, stream_ok |-> stream_ok, inflated |-> inflated]

\* Bytes that are no compressed section.
Plain(data) == Bytes(data, FALSE, 0, "NONE", FALSE, << >>)

NoInput ==
  [isec |-> "text", zdebug |-> FALSE, sh_flags |-> {},
   sh_type |-> "SHT_PROGBITS", sh_size |-> 0, file |-> Plain(<< >>)]

\* No section is under construction.
SecIdle ==
  /\ input = NoInput
  /\ ndebug = FALSE
  /\ constructed = FALSE
  /\ contents = Plain(<< >>)
  /\ sh_size = 0
  /\ compressed = FALSE
  /\ uncompressed = FALSE
  /\ string_pool = 0
  /\ outcome = "running"
  /\ wpc = "idle"
  /\ uncompress_calls = 0

\* The shared libraries of a link and the DT_NEEDED entries of its output.
VARIABLES
  as_needed,   \* --as-needed is in force for the shared libraries
  undefs,      \* the undefined references of the object file
  resolved,    \* the references already resolved
  is_alive,    \* the shared libraries marked as needed
  dt_needed    \* the DT_NEEDED entries of the output, once written

linkVars == <<as_needed, undefs, resolved, is_alive, dt_needed>>

NotWritten == <<"not written">>

\* A link without shared libraries.
LinkIdle ==
  /\ as_needed = FALSE
  /\ undefs = {}
  /\ resolved = {}
  /\ is_alive = {}
  /\ dt_needed = NotWritten

\* Scan workers that run dispatch concurrently.
VARIABLES
  worker,   \* per section: the dispatch its worker is in and the step it is at
  want      \* what the relocations scanned so far ask for

concVars == <<worker, want>>

Idle == [pc |-> "idle"]

NoWant ==
  [flags |-> [s \in Symbols |-> {}], num_dynrel |-> [f \in Files |-> 0],
   has_textrel |-> FALSE]

\* No worker is scanning.
ConcIdle ==
  /\ worker = [w \in Sections |-> Idle]
  /\ want = NoWant

(***************************************************************************)
(* The comparison of two CIE records of .eh_frame.                         *)
(***************************************************************************)
VARIABLES
  cie_this,     \* the CieRecord equals is called on
  cie_other,    \* its argument
  cie_result    \* << >> before the call, then <<what equals returned>>

cieVars == <<cie_this, cie_other, cie_result>>

\* No record has been read.
NoCie == [file |-> "f1", input_offset |-> 0, contents |-> << >>, rels |-> << >>]

CieIdle ==
  /\ cie_this = NoCie
  /\ cie_other = NoCie
  /\ cie_result = << >>

\* The variables that the scan and apply passes leave alone.
auxVars == <<undefVars, secVars, linkVars, concVars, cieVars>>

AuxIdle == UndefIdle /\ SecIdle /\ LinkIdle /\ ConcIdle /\ CieIdle

vars == <<passVars, auxVars>>

scanState == <<flags, num_dynrel, has_textrel, errors, warnings>>

applyState == <<reldyn_offset, dynrel, reldyn, out, applied>>

Slots == Sections \X Offsets

Init ==
  /\ ctx \in [shared : BOOLEAN, pie : BOOLEAN, z_text : BOOLEAN,
              warn_textrel : BOOLEAN, z_copyreloc : BOOLEAN]
  /\ arch \in Archs
  /\ flags = [s \in Symbols |-> {}]
  /\ num_dynrel = [f \in Files |-> 0]
  /\ has_textrel = FALSE
  /\ errors = EmptyBag
  /\ warnings = EmptyBag
  /\ rels = {}
  /\ nscan = 0
  /\ phase = "scan"
  /\ reldyn_offset = [f \in Files |-> 0]
  /\ dynrel = [f \in Files |-> 0]
  /\ reldyn = << >>
  /\ out = [s \in Slots |-> "raw"]
  /\ applied = {}
  /\ last = NoOp
  /\ AuxIdle

\* The scan and apply state of a link in which no relocation is scanned.
PassIdle ==
  /\ ctx = [shared |-> FALSE, pie |-> FALSE, z_text |-> FALSE,
            warn_textrel |-> FALSE, z_copyreloc |-> TRUE]
  /\ arch = "X86_64"
  /\ flags = [s \in Symbols |-> {}]
  /\ num_dynrel = [f \in Files |-> 0]
  /\ has_textrel = FALSE
  /\ errors = EmptyBag
  /\ warnings = EmptyBag
  /\ rels = {}
  /\ nscan = 0
  /\ phase = "scan"
  /\ reldyn_offset = [f \in Files |-> 0]
  /\ dynrel = [f \in Files |-> 0]
  /\ reldyn = << >>
  /\ out = [s \in Slots |-> "raw"]
  /\ applied = {}
  /\ last = NoOp

(***************************************************************************)
(* Decision tables and their lookup.                                       *)
(***************************************************************************)
\* get_rel_action: the lambda get_output_type (row of the table).
get_output_type ==
  IF ctx.shared THEN 0
  ELSE IF ctx.pie THEN 1
  ELSE 2

\* The lambda get_sym_type without the test of is_imported: every symbol that
\* is not absolute is classified by its type alone.
get_sym_type_by_type_only(sym) ==
  IF is_absolute(sym) THEN 0
  ELSE IF get_type(sym) # "STT_FUNC" THEN 2
  ELSE 3

\* get_rel_action: the lambda get_sym_type (column of the table).
get_sym_type(sym) ==
  IF is_absolute(sym) THEN 0
  ELSE IF ~is_imported(sym) THEN 1
  ELSE IF get_type(sym) # "STT_FUNC" THEN 2
  ELSE 3

\* table[get_output_type()][get_sym_type()], with C's 0-based indices.
get_rel_action(table, sym) == table[get_output_type + 1][get_sym_type(sym) + 1]

\* abs_rel_table with the PIE row taken from the word-size table's idea that
\* a local symbol needs nothing at link time.
abs_rel_table_local_none ==
  << << "NONE",  "ERROR", "ERROR",       "ERROR" >>,
     << "NONE",  "NONE",  "ERROR",       "ERROR" >>,
     << "NONE",  "NONE",  "COPYREL",     "CPLT"  >> >>

\* The table of scan_abs_rel.
\*              Absolute  Local    Imported data  Imported code
abs_rel_table ==
  << << "NONE",  "ERROR", "ERROR",       "ERROR" >>,   \* Shared object
     << "NONE",  "ERROR", "ERROR",       "ERROR" >>,   \* Position-independent exec
     << "NONE",  "NONE",  "COPYREL",     "CPLT"  >> >> \* Position-dependent exec

\* toc_table without the special case: the rows of abs_dyn_table.
toc_table_as_abs_dyn ==
  << << "NONE",  "BASEREL", "DYNREL",    "DYNREL" >>,
     << "NONE",  "BASEREL", "DYNREL",    "DYNREL" >>,
     << "NONE",  "NONE",    "COPYREL",   "CPLT"   >> >>

\* The table of get_abs_dyn_action for a PPC64 .toc section.
toc_table ==
  << << "NONE",  "BASEREL", "DYNREL",    "DYNREL" >>,
     << "NONE",  "BASEREL", "DYNREL",    "DYNREL" >>,
     << "NONE",  "NONE",    "DYNREL",    "DYNREL" >> >>

\* abs_dyn_table with the PIE row of an executable that resolves local
\* symbols at link time.
abs_dyn_table_pie_none ==
  << << "NONE",  "BASEREL", "DYNREL",    "DYNREL" >>,
     << "NONE",  "NONE",    "DYNREL",    "DYNREL" >>,
     << "NONE",  "NONE",    "COPYREL",   "CPLT"   >> >>

\* The table of get_abs_dyn_action for every other section.
abs_dyn_table ==
  << << "NONE",  "BASEREL", "DYNREL",    "DYNREL" >>,
     << "NONE",  "BASEREL", "DYNREL",    "DYNREL" >>,
     << "NONE",  "NONE",    "COPYREL",   "CPLT"   >> >>

\* pcrel_table with a canonical PLT for an imported function in a PIE.
pcrel_table_pie_cplt ==
  << << "ERROR", "NONE",  "ERROR",       "PLT"   >>,
     << "ERROR", "NONE",  "COPYREL",     "CPLT"  >>,
     << "NONE",  "NONE",  "COPYREL",     "CPLT"  >> >>

\* The table of scan_pcrel_rel.
pcrel_table ==
  << << "ERROR", "NONE",  "ERROR",       "PLT"   >>,
     << "ERROR", "NONE",  "COPYREL",     "PLT"   >>,
     << "NONE",  "NONE",  "COPYREL",     "CPLT"  >> >>

get_abs_dyn_action(sym, isec) ==
  IF arch = "PPC64" /\ name(isec) = ".toc"
  THEN get_rel_action(toc_table, sym)
  ELSE get_rel_action(abs_dyn_table, sym)

(***************************************************************************)
(* dispatch: the side effects of an Action during the scan pass.           *)
(***************************************************************************)
\* The lambda error of dispatch: the diagnostic it sends to Error(ctx).
\* (Section, relocation type and offset of the message are left out.)
\* The lambda error with the same recompile hint for every symbol.
error_always_fPIC(sym) ==
  [kind |-> "can not be used", sym |-> sym, msg |-> "-fPIC"]

error(sym) ==
  [kind |-> "can not be used", sym |-> sym,
   msg |-> IF is_absolute(sym) THEN "-fno-PIC" ELSE "-fPIC"]

\* The diagnostic of the COPYREL case for a protected symbol.
protected_error(sym) ==
  [kind |-> "cannot make copy relocation for protected symbol", sym |-> sym,
   msg |-> "-fPIC"]

\* The warning of check_textrel.
textrel_warning(sym) ==
  [kind |-> "relocation in read-only section", sym |-> sym, msg |-> ""]

Emit(bag, diag) == bag (+) SetToBag({diag})

\* check_textrel leaving once the error is raised, before has_textrel is set.
check_textrel_return_on_error(isec, sym) ==
  IF SHF_WRITE(isec)
  THEN UNCHANGED <<errors, warnings, has_textrel>>
  ELSE /\ errors' = IF ctx.z_text THEN Emit(errors, error(sym)) ELSE errors
       /\ warnings' = IF ~ctx.z_text /\ ctx.warn_textrel
                      THEN Emit(warnings, textrel_warning(sym))
                      ELSE warnings
       /\ has_textrel' = IF ctx.z_text THEN has_textrel ELSE TRUE

\* The lambda check_textrel of dispatch.
check_textrel(isec, sym) ==
  IF SHF_WRITE(isec)
  THEN UNCHANGED <<errors, warnings, has_textrel>>
  ELSE /\ errors' = IF ctx.z_text THEN Emit(errors, error(sym)) ELSE errors
       /\ warnings' = IF ~ctx.z_text /\ ctx.warn_textrel
                      THEN Emit(warnings, textrel_warning(sym))
                      ELSE warnings
       /\ has_textrel' = TRUE

\* case ERROR
dispatch_ERROR(isec, sym) ==
  /\ errors' = Emit(errors, error(sym))
  /\ UNCHANGED <<flags, num_dynrel, has_textrel, warnings>>

\* case COPYREL returning after a rejection, before the flag is set.
dispatch_COPYREL_return_on_error(isec, sym) ==
  LET rejected == ~ctx.z_copyreloc \/ st_visibility(sym) = "STV_PROTECTED"
  IN  /\ errors' = IF ~ctx.z_copyreloc
                    THEN Emit(errors, error(sym))
                    ELSE IF st_visibility(sym) = "STV_PROTECTED"
                    THEN Emit(errors, protected_error(sym))
                    ELSE errors
      /\ flags' = IF rejected THEN flags
                   ELSE [flags EXCEPT ![sym] = @ \cup {"NEEDS_COPYREL"}]
      /\ UNCHANGED <<num_dynrel, has_textrel, warnings>>

\* case COPYREL testing the visibility before z_copyreloc.
dispatch_COPYREL_protected_first(isec, sym) ==
  /\ errors' = IF st_visibility(sym) = "STV_PROTECTED"
                THEN Emit(errors, protected_error(sym))
                ELSE IF ~ctx.z_copyreloc
                THEN Emit(errors, error(sym))
                ELSE errors
  /\ flags' = [flags EXCEPT ![sym] = @ \cup {"NEEDS_COPYREL"}]
  /\ UNCHANGED <<num_dynrel, has_textrel, warnings>>

\* case COPYREL
dispatch_COPYREL(isec, sym) ==
  /\ errors' = IF ~ctx.z_copyreloc
                THEN Emit(errors, error(sym))
                ELSE IF st_visibility(sym) = "STV_PROTECTED"
                THEN Emit(errors, protected_error(sym))
                ELSE errors
  /\ flags' = [flags EXCEPT ![sym] = @ \cup {"NEEDS_COPYREL"}]
  /\ UNCHANGED <<num_dynrel, has_textrel, warnings>>

\* case PLT toggling the bit (^=) where the code sets it (|=).
dispatch_PLT_xor(sym) ==
  /\ flags' = [flags EXCEPT ![sym] =
                 (@ \ {"NEEDS_PLT"}) \cup ({"NEEDS_PLT"} \ @)]
  /\ UNCHANGED <<num_dynrel, has_textrel, errors, warnings>>

\* case PLT
dispatch_PLT(sym) ==
  /\ flags' = [flags EXCEPT ![sym] = @ \cup {"NEEDS_PLT"}]
  /\ UNCHANGED <<num_dynrel, has_textrel, errors, warnings>>

\* case CPLT
dispatch_CPLT(sym) ==
  /\ flags' = [flags EXCEPT ![sym] = @ \cup {"NEEDS_CPLT"}]
  /\ UNCHANGED <<num_dynrel, has_textrel, errors, warnings>>

\* case DYNREL.  (The assert(sym.is_imported) that opens the case has no
\* effect on the state and is not an effect of this definition.)
dispatch_DYNREL(isec, sym) ==
  /\ check_textrel(isec, sym)
  /\ num_dynrel' = [num_dynrel EXCEPT ![file(isec)] = @ + 1]
  /\ UNCHANGED flags

\* case BASEREL counting the relocation without asking is_relr_reloc.
dispatch_BASEREL_always_counts(isec, sym, rel) ==
  /\ check_textrel(isec, sym)
  /\ num_dynrel' = [num_dynrel EXCEPT ![file(isec)] = @ + 1]
  /\ UNCHANGED flags

\* case BASEREL
dispatch_BASEREL(isec, sym, rel) ==
  /\ check_textrel(isec, sym)
  /\ num_dynrel' = IF ~is_relr_reloc(isec, rel)
                    THEN [num_dynrel EXCEPT ![file(isec)] = @ + 1]
                    ELSE num_dynrel
  /\ UNCHANGED flags

dispatch(isec, action, sym, rel) ==
  CASE action = "NONE"    -> UNCHANGED scanState
    [] action = "ERROR"   -> dispatch_ERROR(isec, sym)
    [] action = "COPYREL" -> dispatch_COPYREL(isec, sym)
    [] action = "PLT"     -> dispatch_PLT(sym)
    [] action = "CPLT"    -> dispatch_CPLT(sym)
    [] action = "DYNREL"  -> dispatch_DYNREL(isec, sym)
    [] action = "BASEREL" -> dispatch_BASEREL(isec, sym, rel)

\* What last keeps of a scan. The narrow and the PC-relative scans read the
\* section and the relocation only for the text of a diagnostic.
Scanned(op, sym, action) == [op |-> op, sym |-> sym, action |-> action]

\* InputSection<E>::scan_abs_rel
scan_abs_rel(isec, sym, rel) ==
  /\ phase = "scan"
  /\ nscan < MaxRels
  /\ LET action == get_rel_action(abs_rel_table, sym)
     IN  /\ dispatch(isec, action, sym, rel)
         /\ last' = Scanned("scan_abs_rel", sym, action)
  /\ nscan' = nscan + 1
  /\ UNCHANGED <<ctx, arch, rels, phase>>
  /\ UNCHANGED applyState
  /\ UNCHANGED auxVars

\* InputSection<E>::scan_abs_dyn_rel
scan_abs_dyn_rel(isec, sym, rel) ==
  /\ phase = "scan"
  /\ nscan < MaxRels
  /\ \A r \in rels : <<r.isec, r.r_offset>> # <<isec, rel.r_offset>>
  /\ LET action == get_abs_dyn_action(sym, isec)
     IN  /\ dispatch(isec, action, sym, rel)
         /\ last' = [op |-> "scan_abs_dyn_rel", isec |-> isec, sym |-> sym,
                     r_offset |-> rel.r_offset, action |-> action]
         /\ rels' = rels \cup {[isec |-> isec, r_offset |-> rel.r_offset,
                                 r_addend |-> rel.r_addend, sym |-> sym,
                                 action |-> action]}
  /\ nscan' = nscan + 1
  /\ UNCHANGED <<ctx, arch, phase>>
  /\ UNCHANGED applyState
  /\ UNCHANGED auxVars

\* InputSection<E>::scan_pcrel_rel
scan_pcrel_rel(isec, sym, rel) ==
  /\ phase = "scan"
  /\ nscan < MaxRels
  /\ LET action == get_rel_action(pcrel_table, sym)
     IN  /\ dispatch(isec, action, sym, rel)
         /\ last' = Scanned("scan_pcrel_rel", sym, action)
  /\ nscan' = nscan + 1
  /\ UNCHANGED <<ctx, arch, rels, phase>>
  /\ UNCHANGED applyState
  /\ UNCHANGED auxVars

(***************************************************************************)
(* The barrier between the passes: every file gets its range of the        *)
(* dynamic-relocation stream from the counters of the scan.                *)
(***************************************************************************)
FileOrder == <<"f1", "f2">>

RECURSIVE SumDynrel(_)
\* Sum of num_dynrel over the first n files.
SumDynrel(n) == IF n = 0 THEN 0 ELSE SumDynrel(n - 1) + num_dynrel[FileOrder[n]]

FileIndex(f) == CHOOSE i \in 1..Len(FileOrder) : FileOrder[i] = f

Layout ==
  /\ phase = "scan"
  /\ phase' = "apply"
  /\ reldyn_offset' = [f \in Files |-> SumDynrel(FileIndex(f) - 1)]
  /\ dynrel' = reldyn_offset'
  /\ reldyn' = [i \in 0..(SumDynrel(Len(FileOrder)) - 1) |-> NoRel]
  /\ last' = [op |-> "layout"]
  /\ UNCHANGED <<ctx, arch, rels, nscan, out, applied>>
  /\ UNCHANGED scanState
  /\ UNCHANGED auxVars

(***************************************************************************)
(* apply_abs_dyn_rel: the apply pass of a word-size absolute relocation.   *)
(***************************************************************************)
\* *dynrel = entry, the cursor staying where it is.
Append1_no_advance(f, entry) ==
  /\ reldyn' = [reldyn EXCEPT ![dynrel[f]] = entry]
  /\ dynrel' = dynrel

\* *dynrel++ = entry
Append1(f, entry) ==
  /\ reldyn' = [reldyn EXCEPT ![dynrel[f]] = entry]
  /\ dynrel' = [dynrel EXCEPT ![f] = @ + 1]

\* case COPYREL, CPLT, NONE
apply_NONE(loc, S, A) ==
  /\ out' = [out EXCEPT ![loc] = ToWord(S + A)]
  /\ UNCHANGED <<dynrel, reldyn>>

\* case BASEREL with the addend of the relocation, not S + A, in the entry.
apply_BASEREL_addend_A(isec, rel, loc, S, A, P) ==
  /\ IF ~is_relr_reloc(isec, rel)
     THEN Append1(file(isec), ElfRel(P, "R_RELATIVE", 0, A))
     ELSE UNCHANGED <<dynrel, reldyn>>
  /\ out' = [out EXCEPT ![loc] = ToWord(S + A)]

\* case BASEREL storing a value two words wide.
apply_BASEREL_two_words(isec, rel, loc, S, A, P) ==
  /\ IF ~is_relr_reloc(isec, rel)
     THEN Append1(file(isec), ElfRel(P, "R_RELATIVE", 0, ToSigned(S + A)))
     ELSE UNCHANGED <<dynrel, reldyn>>
  /\ out' = [s \in Slots |->
               IF s = loc THEN ToWord(S + A)
               ELSE IF s = <<loc[1], loc[2] + 1>> THEN "high"
               ELSE out[s]]

\* case BASEREL
apply_BASEREL(isec, rel, loc, S, A, P) ==
  /\ IF ~is_relr_reloc(isec, rel)
     THEN Append1(file(isec), ElfRel(P, "R_RELATIVE", 0, ToSigned(S + A)))
     ELSE UNCHANGED <<dynrel, reldyn>>
  /\ out' = [out EXCEPT ![loc] = ToWord(S + A)]

\* case DYNREL
apply_DYNREL(isec, sym, loc, A, P) ==
  /\ Append1(file(isec), ElfRel(P, "R_ABS", get_dynsym_idx(sym), A))
  /\ out' = [out EXCEPT ![loc] = ToWord(A)]

\* InputSection<E>::apply_abs_dyn_rel
apply_abs_dyn_rel(isec, sym, rel, loc, S, A, P) ==
  LET action == get_abs_dyn_action(sym, isec)
  IN  /\ CASE action \in {"COPYREL", "CPLT", "NONE"} -> apply_NONE(loc, S, A)
           [] action = "BASEREL" -> apply_BASEREL(isec, rel, loc, S, A, P)
           [] action = "DYNREL"  -> apply_DYNREL(isec, sym, loc, A, P)
      /\ last' = [op |-> "apply_abs_dyn_rel", isec |-> isec, sym |-> sym,
                  r_offset |-> rel.r_offset, action |-> action,
                  S |-> S, A |-> A, P |-> P, cursor |-> dynrel[file(isec)]]

\* The apply pass walks the relocations of a section in order and calls
\* apply_abs_dyn_rel with the final addresses.
ApplyReloc(r) ==
  /\ phase = "apply"
  /\ r \in rels \ applied
  /\ \A q \in rels : (q.isec = r.isec /\ q.r_offset < r.r_offset) => q \in applied
  /\ apply_abs_dyn_rel(r.isec, r.sym,
                       [r_offset |-> r.r_offset, r_addend |-> r.r_addend],
                       <<r.isec, r.r_offset>>, SymAddr(r.sym), r.r_addend,
                       ToWord(SecAddr(r.isec) + r.r_offset))
  /\ applied' = applied \cup {r}
  /\ UNCHANGED <<ctx, arch, rels, nscan, phase, reldyn_offset>>
  /\ UNCHANGED scanState
  /\ UNCHANGED auxVars

Next ==
  \/ \E isec \in Sections, sym \in Symbols : \E rel \in ElfRels(isec) :
       scan_abs_rel(isec, sym, rel)
  \/ \E isec \in Sections, sym \in Symbols : \E rel \in ElfRels(isec) :
       scan_abs_dyn_rel(isec, sym, rel)
  \/ \E isec \in Sections, sym \in Symbols : \E rel \in ElfRels(isec) :
       scan_pcrel_rel(isec, sym, rel)
  \/ Layout
  \/ \E r \in rels : ApplyReloc(r)

Spec == Init /\ [][Next]_vars

(***************************************************************************)
(* Vocabulary of the properties: output flavor and symbol class.           *)
(***************************************************************************)
Flavor == IF ctx.shared THEN "shared" ELSE IF ctx.pie THEN "pie" ELSE "non-pie"

SymClass(sym) ==
  IF is_absolute(sym) THEN "absolute"
  ELSE IF ~is_imported(sym) THEN "local"
  ELSE IF get_type(sym) # "STT_FUNC" THEN "imported data"
  ELSE "imported function"

\* Table A of the specification: narrow absolute relocations.
TableA(flavor, class) ==
  IF class = "absolute" THEN "NONE"
  ELSE IF flavor \in {"shared", "pie"} THEN "ERROR"
  ELSE IF class = "local" THEN "NONE"
  ELSE IF class = "imported data" THEN "COPYREL"
  ELSE "CPLT"

\* Table B of the specification: word-size absolute relocations.
TableB(flavor, class) ==
  IF class = "absolute" THEN "NONE"
  ELSE IF flavor \in {"shared", "pie"}
  THEN (IF class = "local" THEN "BASEREL" ELSE "DYNREL")
  ELSE IF class = "local" THEN "NONE"
  ELSE IF class = "imported data" THEN "COPYREL"
  ELSE "CPLT"

\* Table C of the specification: PC-relative relocations.
TableC(flavor, class) ==
  IF class = "local" THEN "NONE"
  ELSE IF class = "absolute"
  THEN (IF flavor = "non-pie" THEN "NONE" ELSE "ERROR")
  ELSE IF class = "imported function"
  THEN (IF flavor = "non-pie" THEN "CPLT" ELSE "PLT")
  ELSE IF flavor = "shared" THEN "ERROR"
  ELSE "COPYREL"

\* The section is a PPC64 .toc section.
IsPpc64Toc(isec) == arch = "PPC64" /\ name(isec) = ".toc"

\* The relocation of rels that the last scan_abs_dyn_rel or apply_abs_dyn_rel
\* was about.
LastRel == CHOOSE r \in rels : r.isec = last.isec /\ r.r_offset = last.r_offset

(***************************************************************************)
(* C1: for every output flavor and every symbol class, the Action that     *)
(* scan_abs_rel dispatches for a narrow absolute relocation is the entry   *)
(* of Table A.                                                             *)
(***************************************************************************)
C1_NarrowAbsTable ==
  last.op = "scan_abs_rel" =>
    last.action = TableA(Flavor, SymClass(last.sym))

\* A narrow absolute relocation against imported data in a non-PIE
\* executable was scanned and took the COPYREL path.
C1_Witness ==
  /\ last.op = "scan_abs_rel"
  /\ Flavor = "non-pie"
  /\ SymClass(last.sym) = "imported data"
  /\ last.action = "COPYREL"
  /\ "NEEDS_COPYREL" \in flags[last.sym]

(***************************************************************************)
(* C2: for a word-size absolute relocation in a section that is not a      *)
(* PPC64 .toc section, scan_abs_dyn_rel and apply_abs_dyn_rel both choose  *)
(* the entry of Table B, and for every section apply_abs_dyn_rel chooses   *)
(* the Action that scan_abs_dyn_rel chose for the same relocation.         *)
(***************************************************************************)
C2_WordAbsTable ==
  last.op \in {"scan_abs_dyn_rel", "apply_abs_dyn_rel"} =>
    /\ ~IsPpc64Toc(last.isec) =>
         last.action = TableB(Flavor, SymClass(last.sym))
    /\ last.action = LastRel.action

\* A word-size absolute relocation against a local symbol was scanned and
\* then applied as BASEREL outside a PPC64 .toc section.
C2_Witness ==
  /\ last.op = "apply_abs_dyn_rel"
  /\ ~IsPpc64Toc(last.isec)
  /\ SymClass(last.sym) = "local"
  /\ last.action = "BASEREL"
  /\ LastRel.action = "BASEREL"

(***************************************************************************)
(* C3: for every output flavor and every symbol class, the Action that     *)
(* scan_pcrel_rel dispatches is the entry of Table C; a PC-relative        *)
(* relocation against an imported function in a PIE sets NEEDS_PLT.        *)
(***************************************************************************)
C3_PcrelTable ==
  last.op = "scan_pcrel_rel" =>
    /\ last.action = TableC(Flavor, SymClass(last.sym))
    /\ (Flavor = "pie" /\ SymClass(last.sym) = "imported function") =>
         "NEEDS_PLT" \in flags[last.sym]

\* A PC-relative relocation against an imported function was scanned in a
\* PIE and the symbol has NEEDS_PLT.
C3_Witness ==
  /\ last.op = "scan_pcrel_rel"
  /\ Flavor = "pie"
  /\ SymClass(last.sym) = "imported function"
  /\ last.action = "PLT"
  /\ flags[last.sym] = {"NEEDS_PLT"}

(***************************************************************************)
(* Vocabulary of the properties: steps and diagnostics.                    *)
(***************************************************************************)
ScanOps == {"scan_abs_rel", "scan_abs_dyn_rel", "scan_pcrel_rel"}

\* The step is a scan (of the relocation described by last').
ScanStep == nscan' = nscan + 1

\* The step is a call of apply_abs_dyn_rel (described by last').
ApplyStep == applied' # applied

\* The COPYREL relocation against sym is rejected.
CopyrelRejected(sym) ==
  ~ctx.z_copyreloc \/ st_visibility(sym) = "STV_PROTECTED"

\* The step records exactly one error, diag, and no warning.
RecordsError(diag) == errors' = Emit(errors, diag) /\ warnings' = warnings

\* The step records exactly one error, whatever its text.
RecordsOneError == BagCardinality(errors') = BagCardinality(errors) + 1

(***************************************************************************)
(* C4 as stated: when COPYREL is dispatched, a rejected relocation (copy   *)
(* relocations disabled, or protected symbol) records an error and leaves  *)
(* NEEDS_COPYREL as it was; an accepted one sets the flag and records no   *)
(* error.                                                                  *)
(***************************************************************************)
C4_Original ==
  [][(ScanStep /\ last'.action = "COPYREL") =>
       IF CopyrelRejected(last'.sym)
       THEN RecordsOneError /\ flags'[last'.sym] = flags[last'.sym]
       ELSE errors' = errors /\ "NEEDS_COPYREL" \in flags'[last'.sym]]_vars

(***************************************************************************)
(* C4 amended: when COPYREL is dispatched, a rejected relocation records   *)
(* an error and an accepted one records none; in both cases the dispatch   *)
(* sets NEEDS_COPYREL on the symbol.                                       *)
(***************************************************************************)
C4_CopyrelSetsFlag ==
  [][(ScanStep /\ last'.action = "COPYREL") =>
       /\ IF CopyrelRejected(last'.sym)
          THEN RecordsOneError
          ELSE errors' = errors
       /\ flags' = [flags EXCEPT ![last'.sym] = @ \cup {"NEEDS_COPYREL"}]]_vars

\* The first COPYREL dispatch against a symbol was rejected (protected
\* symbol, copy relocations enabled): one error, and the flag is set.
C4_Witness ==
  /\ last.op \in ScanOps
  /\ last.action = "COPYREL"
  /\ nscan = 1
  /\ ctx.z_copyreloc
  /\ st_visibility(last.sym) = "STV_PROTECTED"
  /\ BagCardinality(errors) = 1
  /\ flags[last.sym] = {"NEEDS_COPYREL"}

(***************************************************************************)
(* C5 as stated: whenever COPYREL is dispatched against a symbol with      *)
(* protected visibility, the error recorded is the protected-visibility    *)
(* diagnostic, whether z_copyreloc is enabled or disabled.                 *)
(***************************************************************************)
C5_Original ==
  [][(ScanStep /\ last'.action = "COPYREL"
        /\ st_visibility(last'.sym) = "STV_PROTECTED") =>
       RecordsError(protected_error(last'.sym))]_vars

(***************************************************************************)
(* C5 amended: whenever COPYREL is dispatched against a symbol with        *)
(* protected visibility an error is recorded; it is the                    *)
(* protected-visibility diagnostic when z_copyreloc is enabled and the     *)
(* generic 'can not be used; recompile with -fPIC' one when it is disabled.*)
(***************************************************************************)
C5_ProtectedDiagnostic ==
  [][(ScanStep /\ last'.action = "COPYREL"
        /\ st_visibility(last'.sym) = "STV_PROTECTED") =>
       IF ctx.z_copyreloc
       THEN RecordsError(protected_error(last'.sym))
       ELSE RecordsError(error(last'.sym))]_vars

\* COPYREL was dispatched against the protected symbol with copy
\* relocations disabled: the only error is the generic one.
C5_Witness ==
  /\ last.op \in ScanOps
  /\ last.action = "COPYREL"
  /\ st_visibility(last.sym) = "STV_PROTECTED"
  /\ ~ctx.z_copyreloc
  /\ errors = SetToBag({error(last.sym)})

(***************************************************************************)
(* C6: once every scanned relocation has been applied under the same       *)
(* configuration, the entries appended to the dynamic-relocation stream    *)
(* for a file are as many as the file's num_dynrel, and in total as many   *)
(* as the sum of the counters.                                             *)
(***************************************************************************)
AllApplied == phase = "apply" /\ applied = rels

\* The slots of the stream that hold an entry.
Written == {i \in DOMAIN reldyn : reldyn[i] # NoRel}

C6_DynrelCount ==
  AllApplied =>
    /\ \A f \in Files :
         /\ dynrel[f] - reldyn_offset[f] = num_dynrel[f]
         /\ \A i \in reldyn_offset[f]..(dynrel[f] - 1) : i \in Written
    /\ Cardinality(Written) = SumDynrel(Len(FileOrder))

\* Everything was applied, among it a RELR BASEREL relocation (counted and
\* appended 0 times) and a DYNREL relocation in a read-only section whose
\* text-relocation check raised an error.
C6_Witness ==
  /\ AllApplied
  /\ ctx.z_text
  /\ \E r \in rels : r.action = "BASEREL" /\ is_relr_reloc(r.isec, r)
  /\ \E r \in rels : /\ r.action = "DYNREL"
                       /\ ~SHF_WRITE(r.isec)
                       /\ BagIn(error(r.sym), errors)
  /\ Cardinality(Written) = 1

(***************************************************************************)
(* C7: apply_abs_dyn_rel patches the word at loc by its Action.  NONE,     *)
(* COPYREL, CPLT: writes S+A, appends nothing.  BASEREL: writes S+A and,   *)
(* unless the relocation is RELR-compacted, appends one R_RELATIVE entry   *)
(* at P with symbol index 0 and addend S+A.  DYNREL: writes A and appends  *)
(* one absolute entry at P with the symbol's dynamic-symtab index and      *)
(* addend A.  The cursor advances by the number of entries appended.       *)
(***************************************************************************)
\* The step appends nothing to the stream.
AppendsNothing == reldyn' = reldyn /\ dynrel' = dynrel

\* The step appends exactly entry, at the cursor of file f.
AppendsOne(f, entry) ==
  /\ dynrel[f] \in DOMAIN reldyn
  /\ reldyn' = [reldyn EXCEPT ![dynrel[f]] = entry]
  /\ dynrel' = [dynrel EXCEPT ![f] = @ + 1]

C7_ApplyEffect ==
  [][ApplyStep =>
       LET a   == last'.action
           S   == last'.S
           A   == last'.A
           P   == last'.P
           f   == file(last'.isec)
           loc == <<last'.isec, last'.r_offset>>
           rel == [r_offset |-> last'.r_offset, r_addend |-> A]
       IN  /\ a \in {"NONE", "COPYREL", "CPLT", "BASEREL", "DYNREL"}
           /\ a \in {"NONE", "COPYREL", "CPLT"} =>
                /\ out' = [out EXCEPT ![loc] = ToWord(S + A)]
                /\ AppendsNothing
           /\ a = "BASEREL" =>
                /\ out' = [out EXCEPT ![loc] = ToWord(S + A)]
                /\ IF is_relr_reloc(last'.isec, rel)
                   THEN AppendsNothing
                   ELSE AppendsOne(f, ElfRel(P, "R_RELATIVE", 0,
                                             ToSigned(S + A)))
           /\ a = "DYNREL" =>
                /\ out' = [out EXCEPT ![loc] = ToWord(A)]
                /\ AppendsOne(f, ElfRel(P, "R_ABS",
                                        get_dynsym_idx(last'.sym), A))]_vars

\* A BASEREL relocation outside RELR was applied where S + A wraps around:
\* the word and the entry hold S + A, not A.
C7_Witness ==
  /\ last.op = "apply_abs_dyn_rel"
  /\ last.action = "BASEREL"
  /\ ~is_relr_reloc(last.isec, last)
  /\ last.S + last.A >= WordMod
  /\ out[<<last.isec, last.r_offset>>] = ToWord(last.S + last.A)
  /\ reldyn[last.cursor].r_type = "R_RELATIVE"
  /\ reldyn[last.cursor].r_addend = ToSigned(last.S + last.A)
  /\ dynrel[file(last.isec)] = last.cursor + 1

(***************************************************************************)
(* C8: the text-relocation check runs for every DYNREL and BASEREL         *)
(* dispatch.  In a writable section it produces no diagnostic and leaves   *)
(* has_textrel alone.  In a non-writable section it sets has_textrel in    *)
(* every configuration and records an error if z_text is set, otherwise a  *)
(* warning if warn_textrel is set, otherwise nothing.  So has_textrel is   *)
(* true exactly when some scanned relocation with Action DYNREL or BASEREL *)
(* lay in a non-writable section, and it is never reset.                   *)
(***************************************************************************)
TextrelStep ==
  (ScanStep /\ last'.action \in {"DYNREL", "BASEREL"}) =>
    IF SHF_WRITE(last'.isec)
    THEN UNCHANGED <<errors, warnings, has_textrel>>
    ELSE /\ has_textrel'
         /\ IF ctx.z_text
            THEN RecordsError(error(last'.sym))
            ELSE IF ctx.warn_textrel
            THEN /\ warnings' = Emit(warnings, textrel_warning(last'.sym))
                 /\ errors' = errors
            ELSE errors' = errors /\ warnings' = warnings

TextrelSeen ==
  \E r \in rels : r.action \in {"DYNREL", "BASEREL"} /\ ~SHF_WRITE(r.isec)

C8_Textrel ==
  /\ [](has_textrel <=> TextrelSeen)
  /\ [][TextrelStep /\ (has_textrel => has_textrel')]_vars

\* A DYNREL relocation in a read-only section was scanned with z_text set:
\* the error is recorded and has_textrel is set all the same.
C8_Witness ==
  /\ last.op = "scan_abs_dyn_rel"
  /\ last.action = "DYNREL"
  /\ ~SHF_WRITE(last.isec)
  /\ ctx.z_text
  /\ errors = SetToBag({error(last.sym)})
  /\ has_textrel

(***************************************************************************)
(* C9: for a word-size absolute relocation in a PPC64 section named .toc,  *)
(* the Action for an imported symbol is DYNREL in all three flavors, so    *)
(* scan_abs_dyn_rel sets neither NEEDS_COPYREL nor NEEDS_CPLT for it; the  *)
(* absolute and local columns are those of Table B.  On any other          *)
(* architecture, or for any other section name, Table B is used.           *)
(***************************************************************************)
TocTable(flavor, class) ==
  IF class \in {"imported data", "imported function"} THEN "DYNREL"
  ELSE TableB(flavor, class)

C9_TocAction ==
  (last.op = "scan_abs_dyn_rel" /\ IsPpc64Toc(last.isec)) =>
    last.action = TocTable(Flavor, SymClass(last.sym))

C9_OtherAction ==
  (last.op = "scan_abs_dyn_rel"
     /\ (arch # "PPC64" \/ name(last.isec) # ".toc")) =>
    last.action = TableB(Flavor, SymClass(last.sym))

C9_TocStep ==
  (ScanStep /\ last'.op = "scan_abs_dyn_rel" /\ IsPpc64Toc(last'.isec)) =>
    flags' = flags

C9_Ppc64Toc ==
  /\ [](C9_TocAction /\ C9_OtherAction)
  /\ [][C9_TocStep]_vars

\* A relocation against imported data in a PPC64 .toc section of a non-PIE
\* executable was scanned: DYNREL, counted, and no flag on the symbol.
C9_Witness ==
  /\ last.op = "scan_abs_dyn_rel"
  /\ IsPpc64Toc(last.isec)
  /\ Flavor = "non-pie"
  /\ SymClass(last.sym) = "imported data"
  /\ last.action = "DYNREL"
  /\ flags[last.sym] = {}
  /\ num_dynrel[file(last.isec)] = 1

(***************************************************************************)
(* C10: symbol flags are monotonic.  No scan clears a NEEDS_* bit; a scan  *)
(* changes the flags only by OR-ing at most one of NEEDS_COPYREL,          *)
(* NEEDS_PLT, NEEDS_CPLT into the flags of its symbol; apply_abs_dyn_rel   *)
(* leaves every symbol's flags, every file's num_dynrel and has_textrel    *)
(* unchanged.                                                              *)
(***************************************************************************)
C10_FlagsMonotonic ==
  [][/\ \A sym \in Symbols : flags[sym] \subseteq flags'[sym]
     /\ ScanStep =>
          \E bits \in {{}, {"NEEDS_COPYREL"}, {"NEEDS_PLT"}, {"NEEDS_CPLT"}} :
            flags' = [flags EXCEPT ![last'.sym] = @ \cup bits]
     /\ ApplyStep => UNCHANGED <<flags, num_dynrel, has_textrel>>]_vars

\* NEEDS_PLT was set by one scan, another scan counted a dynamic relocation
\* in a read-only section, and that relocation was applied: the bit, the
\* counter and has_textrel are still there.
C10_Witness ==
  /\ last.op = "apply_abs_dyn_rel"
  /\ nscan = MaxRels
  /\ "NEEDS_PLT" \in flags["sFunc"]
  /\ num_dynrel[file(last.isec)] = 1
  /\ has_textrel

(***************************************************************************)
(* C11: the rejections of the scan pass are not fatal.  A scan whose       *)
(* Action is ERROR records exactly one error, whose hint is -fno-PIC when  *)
(* the symbol is absolute and -fPIC otherwise; a COPYREL scan that is      *)
(* forbidden records exactly one error; a scan with Action NONE, PLT, CPLT *)
(* or an allowed COPYREL records none.  Whatever errors were recorded      *)
(* before, a scan still has its full effect: the flag of its Action is on  *)
(* the symbol, a DYNREL and a BASEREL without RELR are counted, and the    *)
(* text-relocation check is made.                                          *)
(***************************************************************************)
C11_Hint(sym) == IF is_absolute(sym) THEN "-fno-PIC" ELSE "-fPIC"

C11_ErrorStep ==
  LET sym == last'.sym
      action == last'.action
      none == action \in {"NONE", "PLT", "CPLT"}
                \/ (action = "COPYREL" /\ ~CopyrelRejected(sym))
  IN  /\ action = "ERROR" =>
           errors' = Emit(errors, [kind |-> "can not be used", sym |-> sym,
                                   msg |-> C11_Hint(sym)])
      /\ (action = "COPYREL" /\ CopyrelRejected(sym)) =>
           BagCardinality(errors') = BagCardinality(errors) + 1
      /\ none => errors' = errors

C11_EffectStep ==
  LET sym == last'.sym
      action == last'.action
  IN  /\ action = "PLT" => "NEEDS_PLT" \in flags'[sym]
      /\ action = "CPLT" => "NEEDS_CPLT" \in flags'[sym]
      /\ action = "COPYREL" => "NEEDS_COPYREL" \in flags'[sym]
      /\ action \in {"DYNREL", "BASEREL"} =>
           LET isec == last'.isec
               counted == action = "DYNREL"
                            \/ ~is_relr_reloc(isec, [r_offset |-> last'.r_offset])
           IN  /\ num_dynrel'[file(isec)] =
                    num_dynrel[file(isec)] + (IF counted THEN 1 ELSE 0)
               /\ (~SHF_WRITE(isec) /\ ~ctx.z_text) => has_textrel'

UndefNames == {"bar", "foo"}

UnresolvedModes == {"UNRESOLVED_ERROR", "UNRESOLVED_WARN", "UNRESOLVED_IGNORE"}

\* constexpr i64 max_errors
max_errors == 3

\* The string that record_undef_error builds: it names the section (or the
\* source file), the file and the function around the offset.
Site(isec, rel) == <<">>> referenced by", isec, file(isec), rel.r_offset>>

InitUndef ==
  /\ PassIdle
  /\ SecIdle
  /\ LinkIdle
  /\ ConcIdle
  /\ CieIdle
  /\ undef_errors = << >>
  /\ unresolved_symbols \in UnresolvedModes
  /\ diag_out = << >>
  /\ checkpoint = FALSE
  /\ calls = {}
  /\ first_link = NoLink

\* record_undef_error assigning the new string to the entry
\* (acc->second = {ss.str()}).
record_undef_error_assigns(isec, rel, sym_name) ==
  LET site == Site(isec, rel)
      call == [site |-> site, sym |-> sym_name]
  IN  /\ ~checkpoint
      /\ Cardinality(calls) < MaxUndef
      /\ \A c \in calls : c.site # site
      /\ first_link.linked => call \in first_link.calls
      /\ undef_errors' =
           IF sym_name \in DOMAIN undef_errors
           THEN [undef_errors EXCEPT ![sym_name] = <<site>>]
           ELSE undef_errors @@ (sym_name :> <<site>>)
      /\ calls' = calls \cup {call}
      /\ UNCHANGED <<unresolved_symbols, diag_out, checkpoint, first_link>>
      /\ UNCHANGED <<passVars, secVars, linkVars, concVars, cieVars>>

\* InputSection<E>::record_undef_error.  A relocation is scanned once, and a
\* second link of the same input makes the calls of the first.
record_undef_error(isec, rel, sym_name) ==
  LET site == Site(isec, rel)
      call == [site |-> site, sym |-> sym_name]
  IN  /\ ~checkpoint
      /\ Cardinality(calls) < MaxUndef
      /\ \A c \in calls : c.site # site
      /\ first_link.linked => call \in first_link.calls
      /\ undef_errors' =
           IF sym_name \in DOMAIN undef_errors
           THEN [undef_errors EXCEPT ![sym_name] = Append(@, site)]
           ELSE undef_errors @@ (sym_name :> <<site>>)
      /\ calls' = calls \cup {call}
      /\ UNCHANGED <<unresolved_symbols, diag_out, checkpoint, first_link>>
      /\ UNCHANGED <<passVars, secVars, linkVars, concVars, cieVars>>

\* The message of report_undef_errors with the "more times" line from the
\* third site on.
report_message_tail_from_max(sym_name, errs) ==
  [sym |-> sym_name,
   sites |-> SubSeq(errs, 1, IF Len(errs) < max_errors THEN Len(errs)
                             ELSE max_errors),
   more |-> IF Len(errs) >= max_errors THEN <<Len(errs) - max_errors>>
            ELSE << >>]

\* The message that report_undef_errors builds for one symbol: the header,
\* the first max_errors sites, and the "referenced N more times" line.
report_message(sym_name, errs) ==
  [sym |-> sym_name,
   sites |-> SubSeq(errs, 1, IF Len(errs) < max_errors THEN Len(errs)
                             ELSE max_errors),
   more |-> IF Len(errs) > max_errors THEN <<Len(errs) - max_errors>>
            ELSE << >>]

\* The orders in which an iteration can visit the entries of the map.
IterationOrders(keys) ==
  {order \in [1..Cardinality(keys) -> keys] :
     \A i, j \in 1..Cardinality(keys) : order[i] = order[j] => i = j}

\* report_undef_errors
report_undef_errors ==
  /\ ~checkpoint
  /\ \E order \in IterationOrders(DOMAIN undef_errors) :
       LET level == IF unresolved_symbols = "UNRESOLVED_ERROR" THEN "error"
                    ELSE "warning"
           msgs == [i \in 1..Len(order) |->
                      [level |-> level,
                       text |-> report_message(order[i],
                                               undef_errors[order[i]])]]
       IN  diag_out' = IF unresolved_symbols \in {"UNRESOLVED_ERROR",
                                                   "UNRESOLVED_WARN"}
                       THEN diag_out \o msgs
                       ELSE diag_out
  /\ checkpoint' = TRUE
  /\ UNCHANGED <<undef_errors, unresolved_symbols, calls, first_link>>
  /\ UNCHANGED <<passVars, secVars, linkVars, concVars, cieVars>>

\* The linker is run again on the same input; what the first link recorded
\* and printed is kept for the comparison.
LinkAgain ==
  /\ checkpoint
  /\ ~first_link.linked
  /\ first_link' = [calls |-> calls, diag_out |-> diag_out, linked |-> TRUE]
  /\ undef_errors' = << >>
  /\ diag_out' = << >>
  /\ checkpoint' = FALSE
  /\ calls' = {}
  /\ UNCHANGED unresolved_symbols
  /\ UNCHANGED <<passVars, secVars, linkVars, concVars, cieVars>>

NextUndef ==
  \/ \E isec \in Sections, sym_name \in UndefNames : \E rel \in ElfRels(isec) :
       record_undef_error(isec, rel, sym_name)
  \/ report_undef_errors
  \/ LinkAgain

SpecUndef == InitUndef /\ [][NextUndef]_vars

(***************************************************************************)
(* C12: report_undef_errors emits, for every symbol with k >= 1 recorded   *)
(* sites, exactly one message: the header with the symbol, the first       *)
(* min(k, 3) sites in recorded order, and the "referenced N more times"    *)
(* line exactly when k > 3, with N = k - 3.  The message is an error under *)
(* UNRESOLVED_ERROR, a warning under UNRESOLVED_WARN and is not emitted    *)
(* otherwise; the checkpoint is reached after all symbols.                 *)
(***************************************************************************)
C12_Expected(sym_name) ==
  LET errs == undef_errors[sym_name]
      k == Len(errs)
      shown == IF k < 3 THEN k ELSE 3
  IN  [level |-> IF unresolved_symbols = "UNRESOLVED_ERROR" THEN "error"
                 ELSE "warning",
       text |-> [sym |-> sym_name,
                 sites |-> [i \in 1..shown |-> errs[i]],
                 more |-> IF k > 3 THEN <<k - 3>> ELSE << >>]]

C12_ReportShape ==
  checkpoint =>
    IF unresolved_symbols \in {"UNRESOLVED_ERROR", "UNRESOLVED_WARN"}
    THEN /\ Len(diag_out) = Cardinality(DOMAIN undef_errors)
         /\ \A sym_name \in DOMAIN undef_errors :
              /\ Len(undef_errors[sym_name]) >= 1
              /\ Cardinality({i \in 1..Len(diag_out) :
                                diag_out[i].text.sym = sym_name}) = 1
              /\ \E i \in 1..Len(diag_out) :
                   diag_out[i] = C12_Expected(sym_name)
    ELSE diag_out = << >>

\* Four sites were recorded for foo and reported as an error: three sites
\* and "referenced 1 more times".
C12_Witness ==
  /\ checkpoint
  /\ unresolved_symbols = "UNRESOLVED_ERROR"
  /\ "foo" \in DOMAIN undef_errors
  /\ Len(undef_errors["foo"]) = 4
  /\ Len(diag_out) = 1
  /\ Len(diag_out[1].text.sites) = 3
  /\ diag_out[1].text.more = <<1>>

(***************************************************************************)
(* C13: the output of report_undef_errors is deterministic.  Two links     *)
(* that record the same references print the same messages in the same     *)
(* order, whatever the interleaving of the workers and the iteration order *)
(* of the map, and the messages are in the order of the symbol names.      *)
(***************************************************************************)
\* Position of a symbol name in the sorted order of the names.
C13_NameRank(sym_name) == IF sym_name = "bar" THEN 1 ELSE 2

C13_SortedByName ==
  \A i, j \in 1..Len(diag_out) :
    i < j => C13_NameRank(diag_out[i].text.sym)
               < C13_NameRank(diag_out[j].text.sym)

C13_Original ==
  (checkpoint /\ first_link.linked /\ calls = first_link.calls) =>
    /\ diag_out = first_link.diag_out
    /\ C13_SortedByName

(***************************************************************************)
(* One input section: construction, uncompress, uncompress_to, write_to.   *)
(* A cell of contents and of the output buffer holds one Word<E>; the      *)
(* sizes of the section and of its headers count cells.                    *)
(***************************************************************************)
\* The targets E: one with REL relocations, one with RELA, and RISC-V.
SecArchs == {"I386", "X86_64", "RV64"}

is_rela(E) == E # "I386"

is_riscv(E) == E = "RV64"

\* Length of "ZLIB" and the 8-byte size that follows it.
ZdebugHdrSize == 12

\* sizeof(ElfChdr<E>)
ChdrSize == 24

\* Uncompressed bytes of a section.
Content == <<"a", "b">>

ContentSizes == 0..Len(Content)

Prefix(seq, n) == [i \in 1..n |-> seq[i]]

\* Raw bytes of a compressed section.
RawData(n) == [i \in 1..n |-> "z"]

\* Sections whose name starts with .zdebug: "ZLIB" or not, shorter than,
\* as long as or longer than the header, any size field, any stream.
ZdebugFiles ==
  {Bytes(RawData(n), magic, size_field, "NONE", ok, Prefix(Content, k)) :
     n \in {ZdebugHdrSize - 1, ZdebugHdrSize, ZdebugHdrSize + 1},
     magic \in BOOLEAN, size_field \in ContentSizes, ok \in BOOLEAN,
     k \in ContentSizes}

\* SHF_COMPRESSED sections: the same with an ElfChdr<E> at the front.
ChdrFiles ==
  {Bytes(RawData(n), FALSE, size_field, ch_type, ok, Prefix(Content, k)) :
     n \in {ChdrSize - 1, ChdrSize, ChdrSize + 1},
     size_field \in ContentSizes,
     ch_type \in {"ELFCOMPRESS_ZLIB", "ELFCOMPRESS_ZSTD"}, ok \in BOOLEAN,
     k \in ContentSizes}

PlainFiles == {Plain(Prefix(Content, k)) : k \in ContentSizes}

Inputs ==
  {[isec |-> isec, zdebug |-> zdebug, sh_flags |-> sh_flags,
    sh_type |-> sh_type, sh_size |-> Len(f.data), file |-> f] :
     isec \in Sections, zdebug \in BOOLEAN,
     sh_flags \in SUBSET {"SHF_ALLOC", "SHF_COMPRESSED"},
     sh_type \in {"SHT_PROGBITS", "SHT_NOBITS"},
     f \in ZdebugFiles \cup ChdrFiles \cup PlainFiles}

\* A section is compressed in one way or in none, and a section without
\* bytes in the file is not compressed.
WellNamed(i) ==
  /\ i.zdebug => (i.file \in ZdebugFiles /\ "SHF_COMPRESSED" \notin i.sh_flags)
  /\ "SHF_COMPRESSED" \in i.sh_flags => i.file \in ChdrFiles
  /\ (~i.zdebug /\ "SHF_COMPRESSED" \notin i.sh_flags) => i.file \in PlainFiles
  /\ i.sh_type = "SHT_NOBITS" => i.file \in PlainFiles

InitSec ==
  /\ ctx = [shared |-> FALSE, pie |-> TRUE, z_text |-> FALSE,
            warn_textrel |-> FALSE, z_copyreloc |-> TRUE]
  /\ arch \in SecArchs
  /\ flags = [s \in Symbols |-> {}]
  /\ num_dynrel = [f \in Files |-> 0]
  /\ has_textrel = FALSE
  /\ errors = EmptyBag
  /\ warnings = EmptyBag
  /\ rels = {}
  /\ nscan = 0
  /\ phase = "apply"
  /\ reldyn_offset = [f \in Files |-> 0]
  /\ dynrel = [f \in Files |-> 0]
  /\ reldyn = [i \in 0..(Cardinality(Offsets) - 1) |-> NoRel]
  /\ out = [s \in Slots |-> "raw"]
  /\ applied = {}
  /\ last = NoOp
  /\ UndefIdle
  /\ LinkIdle
  /\ ConcIdle
  /\ CieIdle
  /\ input \in {i \in Inputs : WellNamed(i)}
  /\ ndebug \in BOOLEAN
  /\ constructed = FALSE
  /\ contents = Plain(<< >>)
  /\ sh_size = 0
  /\ compressed = FALSE
  /\ uncompressed = FALSE
  /\ string_pool = 0
  /\ outcome = "running"
  /\ wpc = "idle"
  /\ uncompress_calls = 0

\* The fields of the section that uncompress and uncompress_to read.
Fields(c, size, comp, unc) ==
  [contents |-> c, sh_size |-> size, compressed |-> comp, uncompressed |-> unc]

This == Fields(contents, sh_size, compressed, uncompressed)

\* zlib's ::uncompress(buf, &size, data, len), with size = cap on entry and
\* data the contents after a header of hdr cells.
zlib_uncompress(c, hdr, cap) ==
  IF Len(c.data) <= hdr \/ ~c.stream_ok
  THEN [rc |-> "Z_DATA_ERROR", size |-> cap, bytes |-> << >>]
  ELSE IF Len(c.inflated) > cap
  THEN [rc |-> "Z_BUF_ERROR", size |-> cap, bytes |-> Prefix(c.inflated, cap)]
  ELSE [rc |-> "Z_OK", size |-> Len(c.inflated), bytes |-> c.inflated]

Fatal(msg) == [outcome |-> msg, bytes |-> << >>]

\* The lambda do_uncompress of uncompress_to.
do_uncompress(this, hdr) ==
  LET z == zlib_uncompress(this.contents, hdr, this.sh_size)
  IN  IF z.rc # "Z_OK" THEN Fatal("uncompress failed")
      ELSE IF z.size # this.sh_size /\ ~ndebug
      THEN [outcome |-> "abort", bytes |-> z.bytes]
      ELSE [outcome |-> "ok", bytes |-> z.bytes]

\* InputSection<E>::uncompress_to: how it ends and the bytes it wrote to
\* the front of buf.
uncompress_to(this) ==
  IF ~this.compressed \/ this.uncompressed
  THEN [outcome |-> "ok", bytes |-> this.contents.data]
  ELSE IF input.zdebug
  THEN (IF ~this.contents.magic \/ Len(this.contents.data) <= ZdebugHdrSize
        THEN Fatal("corrupted compressed section")
        ELSE do_uncompress(this, ZdebugHdrSize))
  ELSE IF Len(this.contents.data) < ChdrSize
  THEN Fatal("corrupted compressed section")
  ELSE IF this.contents.ch_type # "ELFCOMPRESS_ZLIB"
  THEN Fatal("unsupported compression type")
  ELSE do_uncompress(this, ChdrSize)

\* new u8[sh_size] filled from the front: the cells that were not written
\* keep whatever the allocation held.
NewBuffer(size, bytes) ==
  [i \in 1..size |-> IF i <= Len(bytes) THEN bytes[i] ELSE "?"]

\* InputSection<E>::uncompress without the early return.
uncompress_always(this) ==
  LET r == uncompress_to(this)
  IN  IF r.outcome = "ok"
      THEN [this |-> Fields(Plain(NewBuffer(this.sh_size, r.bytes)),
                            this.sh_size, this.compressed, TRUE),
            buffers |-> 1, outcome |-> "running"]
      ELSE [this |-> this, buffers |-> 0, outcome |-> r.outcome]

\* InputSection<E>::uncompress: the fields after the call, the number of
\* buffers it added to ctx.string_pool, and how it ended.
uncompress(this) ==
  IF ~this.compressed \/ this.uncompressed
  THEN [this |-> this, buffers |-> 0, outcome |-> "running"]
  ELSE LET r == uncompress_to(this)
       IN  IF r.outcome = "ok"
           THEN [this |-> Fields(Plain(NewBuffer(this.sh_size, r.bytes)),
                                 this.sh_size, this.compressed, TRUE),
                 buffers |-> 1, outcome |-> "running"]
           ELSE [this |-> this, buffers |-> 0, outcome |-> r.outcome]

Assign(r) ==
  /\ contents' = r.this.contents
  /\ sh_size' = r.this.sh_size
  /\ compressed' = r.this.compressed
  /\ uncompressed' = r.this.uncompressed
  /\ string_pool' = string_pool + r.buffers
  /\ outcome' = r.outcome

\* InputSection<E>::InputSection.  The size of a compressed section is read
\* from its header before the header is looked at.
InputSection ==
  /\ ~constructed
  /\ constructed' = TRUE
  /\ LET comp == input.zdebug \/ "SHF_COMPRESSED" \in input.sh_flags
         size == IF comp THEN input.file.size_field ELSE input.sh_size
         this == Fields(input.file, size, comp, FALSE)
     IN  IF ~is_rela(arch)
         THEN /\ Assign(uncompress(this))
              /\ uncompress_calls' = uncompress_calls + 1
         ELSE /\ Assign([this |-> this, buffers |-> 0, outcome |-> "running"])
              /\ UNCHANGED uncompress_calls
  /\ UNCHANGED <<input, ndebug, wpc>>
  /\ UNCHANGED <<passVars, undefVars, linkVars, concVars, cieVars>>

\* A call of uncompress on the constructed section.
Uncompress ==
  /\ constructed
  /\ outcome = "running"
  /\ uncompress_calls < MaxUncompress
  /\ Assign(uncompress(This))
  /\ uncompress_calls' = uncompress_calls + 1
  /\ UNCHANGED <<input, ndebug, constructed, wpc>>
  /\ UNCHANGED <<passVars, undefVars, linkVars, concVars, cieVars>>

\* copy_contents_riscv: the contents of the section, uncompressed, at the
\* front of buf.
copy_contents_riscv(this) == uncompress_to(this)

\* memcpy(buf, bytes): the output buffer of the section after the copy.
Memcpy(isec, bytes) ==
  [s \in Slots |->
     IF s[1] = isec /\ s[2] < Len(bytes) THEN bytes[s[2] + 1] ELSE out[s]]

\* The relocations that the appliers of write_to walk: those of the section
\* that lie inside its contents.
SectionRels(isec, size) ==
  {[isec |-> isec, r_offset |-> rel.r_offset, r_addend |-> rel.r_addend,
    sym |-> "sLocal", action |-> get_abs_dyn_action("sLocal", isec)] :
     rel \in {q \in ElfRels(isec) : q.r_offset < size}}

\* InputSection<E>::write_to up to the call of the appliers.
write_to ==
  /\ constructed
  /\ outcome = "running"
  /\ wpc = "idle"
  /\ IF input.sh_type = "SHT_NOBITS" \/ sh_size = 0
     THEN /\ wpc' = "done"
          /\ UNCHANGED <<out, rels, outcome>>
     ELSE LET r == IF is_riscv(arch) THEN copy_contents_riscv(This)
                   ELSE IF compressed THEN uncompress_to(This)
                   ELSE [outcome |-> "ok", bytes |-> contents.data]
          IN  IF r.outcome = "ok"
              THEN /\ out' = Memcpy(input.isec, r.bytes)
                   /\ rels' = SectionRels(input.isec, sh_size)
                   /\ wpc' = "apply"
                   /\ UNCHANGED outcome
              ELSE /\ outcome' = r.outcome
                   /\ UNCHANGED <<out, rels, wpc>>
  /\ last' = [op |-> "write_to"]
  /\ UNCHANGED <<ctx, arch, nscan, phase, reldyn_offset, dynrel, reldyn,
                 applied>>
  /\ UNCHANGED scanState
  /\ UNCHANGED <<input, ndebug, constructed, contents, sh_size, compressed,
                 uncompressed, string_pool, uncompress_calls>>
  /\ UNCHANGED <<undefVars, linkVars, concVars, cieVars>>

\* apply_reloc_nonalloc for one relocation: the value goes to loc, nothing
\* goes to the dynamic-relocation stream.
apply_reloc_nonalloc(r, loc, S, A) ==
  /\ out' = [out EXCEPT ![loc] = ToWord(S + A)]
  /\ UNCHANGED <<dynrel, reldyn>>
  /\ last' = [op |-> "apply_reloc_nonalloc", isec |-> r.isec, sym |-> r.sym,
              r_offset |-> r.r_offset, action |-> "NONE"]

\* The appliers of write_to, one relocation at a time and in the order of
\* the offsets: apply_reloc_alloc calls apply_abs_dyn_rel.
apply_reloc(r) ==
  /\ wpc = "apply"
  /\ r \in rels \ applied
  /\ \A q \in rels : q.r_offset < r.r_offset => q \in applied
  /\ IF "SHF_ALLOC" \in input.sh_flags
     THEN apply_abs_dyn_rel(r.isec, r.sym,
                            [r_offset |-> r.r_offset, r_addend |-> r.r_addend],
                            <<r.isec, r.r_offset>>, SymAddr(r.sym), r.r_addend,
                            ToWord(SecAddr(r.isec) + r.r_offset))
     ELSE apply_reloc_nonalloc(r, <<r.isec, r.r_offset>>, SymAddr(r.sym),
                               r.r_addend)
  /\ applied' = applied \cup {r}
  /\ UNCHANGED <<ctx, arch, rels, nscan, phase, reldyn_offset>>
  /\ UNCHANGED scanState
  /\ UNCHANGED <<secVars, undefVars, linkVars, concVars, cieVars>>

\* write_to returns when the appliers are through.
write_to_return ==
  /\ wpc = "apply"
  /\ applied = rels
  /\ wpc' = "done"
  /\ UNCHANGED <<input, ndebug, constructed, contents, sh_size, compressed,
                 uncompressed, string_pool, outcome, uncompress_calls>>
  /\ UNCHANGED <<passVars, undefVars, linkVars, concVars, cieVars>>

NextSec ==
  \/ InputSection
  \/ Uncompress
  \/ write_to
  \/ \E r \in rels : apply_reloc(r)
  \/ write_to_return

SpecSec == InitSec /\ [][NextSec]_vars

(***************************************************************************)
(* Vocabulary of the properties of one section.                            *)
(***************************************************************************)
\* The section is compressed in the object file.
InputCompressed == input.zdebug \/ "SHF_COMPRESSED" \in input.sh_flags

\* The output buffer of the section, its first n cells.
Buf(n) == [i \in 1..n |-> out[<<input.isec, i - 1>>]]

\* The offsets of the section that a relocation of write_to covers.
Relocated == {r.r_offset : r \in rels}

UncompressStep == uncompress_calls' = uncompress_calls + 1

(***************************************************************************)
(* C14: uncompress is idempotent.  For a section that is not compressed,   *)
(* compressed and not yet uncompressed, or already uncompressed, a second  *)
(* call of uncompress leaves contents, sh_size and the two flags as the    *)
(* first call left them and adds no buffer to the string pool; after a     *)
(* successful uncompress of a compressed section the contents are sh_size  *)
(* long and the section is flagged uncompressed.                           *)
(***************************************************************************)
C14_SecondCall ==
  (UncompressStep /\ uncompress_calls >= 1) =>
    UNCHANGED <<contents, sh_size, compressed, uncompressed, string_pool>>

C14_AfterSuccess ==
  (uncompress_calls >= 1 /\ outcome = "running" /\ compressed) =>
    (uncompressed /\ Len(contents.data) = sh_size)

C14_Idempotent == [][C14_SecondCall]_vars /\ []C14_AfterSuccess

\* A compressed section of two cells was uncompressed by the first call and
\* the second call added no buffer.
C14_Witness ==
  /\ uncompress_calls = 2
  /\ outcome = "running"
  /\ InputCompressed
  /\ uncompressed
  /\ sh_size = 2
  /\ contents.data = Content
  /\ string_pool = 1

(***************************************************************************)
(* C15: uncompress_to on a compressed section that is not yet uncompressed *)
(* ends in a fatal error, with no successful result, when the header is    *)
(* truncated (old style: no "ZLIB" at the front or no longer than 12; new  *)
(* style: shorter than the compression header), when the compression type  *)
(* is not zlib, when the zlib stream is invalid, and when the stream       *)
(* decompresses to a byte count other than sh_size.  On a section that is  *)
(* not compressed it never fails.                                          *)
(***************************************************************************)
\* uncompress_to has run on the section as it came from the file.
C15_Ran ==
  /\ constructed
  /\ \/ uncompress_calls >= 1
     \/ wpc = "apply"
     \/ (wpc = "done" /\ sh_size # 0)
     \/ outcome # "running"

C15_Defect ==
  LET f == input.file
  IN  \/ input.zdebug /\ (~f.magic \/ Len(f.data) <= 12)
      \/ ~input.zdebug /\ Len(f.data) < ChdrSize
      \/ ~input.zdebug /\ f.ch_type # "ELFCOMPRESS_ZLIB"
      \/ ~f.stream_ok
      \/ Len(f.inflated) # f.size_field

C15_Original ==
  /\ (C15_Ran /\ InputCompressed /\ C15_Defect) => outcome # "running"
  /\ ~InputCompressed => outcome = "running"

(***************************************************************************)
(* C16: the appliers of write_to run only on a buffer that holds the full  *)
(* uncompressed content of the section, sh_size cells of it, never the raw *)
(* compressed bytes.  A NOBITS section and a section of size 0 get no cell *)
(* written and no relocation applied.  On a REL target a compressed        *)
(* section is uncompressed, with contents of length sh_size, once it is    *)
(* constructed, so before any scan; on a RELA target the construction      *)
(* leaves it compressed.                                                   *)
(***************************************************************************)
\* What the section holds once it is uncompressed.
C16_Content ==
  IF InputCompressed THEN input.file.inflated ELSE input.file.data

C16_AppliersSeeContent ==
  (wpc = "apply" /\ applied = {}) =>
    /\ Len(C16_Content) = sh_size
    /\ Buf(sh_size) = C16_Content

C16_NothingWritten ==
  (wpc = "done" /\ (input.sh_type = "SHT_NOBITS" \/ sh_size = 0)) =>
    /\ \A s \in Slots : out[s] = "raw"
    /\ applied = {}

C16_RelConstruction ==
  (constructed /\ outcome = "running" /\ ~is_rela(arch) /\ InputCompressed) =>
    (uncompressed /\ Len(contents.data) = sh_size)

C16_RelaConstruction ==
  (constructed /\ is_rela(arch) /\ InputCompressed /\ uncompress_calls = 0) =>
    (compressed /\ ~uncompressed /\ contents = input.file)

C16_Original ==
  /\ C16_AppliersSeeContent
  /\ C16_NothingWritten
  /\ C16_RelConstruction
  /\ C16_RelaConstruction

(***************************************************************************)
(* C17: on a RELA target, after write_to on an allocatable section that is *)
(* not compressed, every cell of the output buffer outside the relocations *)
(* of the section equals the cell of the input at the same offset; and     *)
(* an applier writes the one word at loc and no other cell of the buffer.  *)
(***************************************************************************)
C17_Copied ==
  (wpc \in {"apply", "done"} /\ is_rela(arch) /\ ~InputCompressed
     /\ "SHF_ALLOC" \in input.sh_flags /\ input.sh_type # "SHT_NOBITS") =>
    \A off \in 0..(Len(input.file.data) - 1) :
      off \notin Relocated => out[<<input.isec, off>>] = input.file.data[off + 1]

C17_OneWord ==
  ApplyStep =>
    \A s \in Slots : s # <<last'.isec, last'.r_offset>> => out'[s] = out[s]

C17_Frame == []C17_Copied /\ [][C17_OneWord]_vars

\* write_to is through on an allocatable section of two cells with one
\* relocation, at offset 0: the cell at offset 1 is the input's.
C17_Witness ==
  /\ wpc = "done"
  /\ arch = "X86_64"
  /\ "SHF_ALLOC" \in input.sh_flags
  /\ ~InputCompressed
  /\ input.isec = "text"
  /\ Relocated = {0}
  /\ applied = rels
  /\ out[<<"text", 0>>] = ToWord(SymAddr("sLocal") + 2)
  /\ out[<<"text", 1>>] = "b"

(***************************************************************************)
(* Shared libraries and --as-needed: a.o with its undefined references is  *)
(* linked with b.so (soname libfoo.so, defines fn1) and c.so (soname       *)
(* libbar.so, defines fn2).                                                *)
(***************************************************************************)
\* The shared libraries in the order of the command line.
Dsos == <<"b.so", "c.so">>

soname(dso) == IF dso = "b.so" THEN "libfoo.so" ELSE "libbar.so"

\* The symbols a shared library defines.
Defines(dso) == IF dso = "b.so" THEN {"fn1"} ELSE {"fn2"}

\* The undefined references an object can hold: weak or not.
UndefRefs == {[sym |-> sym, weak |-> weak] : sym \in {"fn1", "fn2"},
                                              weak \in BOOLEAN}

DsoSet == {Dsos[i] : i \in 1..Len(Dsos)}

InitLink ==
  /\ PassIdle
  /\ UndefIdle
  /\ SecIdle
  /\ ConcIdle
  /\ CieIdle
  /\ as_needed \in BOOLEAN
  /\ undefs \in SUBSET UndefRefs
  /\ resolved = {}
  /\ is_alive = IF as_needed THEN {} ELSE DsoSet
  /\ dt_needed = NotWritten

\* Resolution in which a weak reference also keeps the library.
resolve_weak_keeps(ref) ==
  /\ dt_needed = NotWritten
  /\ ref \in undefs \ resolved
  /\ resolved' = resolved \cup {ref}
  /\ is_alive' = is_alive \cup {dso \in DsoSet : ref.sym \in Defines(dso)}
  /\ UNCHANGED <<as_needed, undefs, dt_needed>>
  /\ UNCHANGED <<passVars, undefVars, secVars, concVars, cieVars>>

\* One undefined reference is resolved: a reference that is not weak keeps
\* the shared library that defines the symbol.
resolve(ref) ==
  /\ dt_needed = NotWritten
  /\ ref \in undefs \ resolved
  /\ resolved' = resolved \cup {ref}
  /\ is_alive' = is_alive \cup
                   {dso \in DsoSet : ref.sym \in Defines(dso) /\ ~ref.weak}
  /\ UNCHANGED <<as_needed, undefs, dt_needed>>
  /\ UNCHANGED <<passVars, undefVars, secVars, concVars, cieVars>>

\* The dynamic section is written: one DT_NEEDED entry per library kept.
write_dynamic ==
  /\ dt_needed = NotWritten
  /\ resolved = undefs
  /\ dt_needed' = LET kept == SelectSeq(Dsos, LAMBDA dso : dso \in is_alive)
                  IN  [i \in 1..Len(kept) |-> soname(kept[i])]
  /\ UNCHANGED <<as_needed, undefs, resolved, is_alive>>
  /\ UNCHANGED <<passVars, undefVars, secVars, concVars, cieVars>>

NextLink ==
  \/ \E ref \in UndefRefs : resolve(ref)
  \/ write_dynamic

SpecLink == InitLink /\ [][NextLink]_vars

(***************************************************************************)
(* C18: an object whose only reference to the shared libraries is a weak   *)
(* undefined reference to fn1, linked with b.so (defines fn1) and c.so     *)
(* (defines fn2): without --as-needed the dynamic section lists libfoo.so  *)
(* and libbar.so; with --as-needed it lists neither.                       *)
(***************************************************************************)
C18_AsNeeded ==
  (dt_needed # NotWritten /\ undefs = {[sym |-> "fn1", weak |-> TRUE]}) =>
    dt_needed = IF as_needed THEN << >> ELSE <<"libfoo.so", "libbar.so">>

\* The link with --as-needed of the object with the weak reference to fn1
\* is through, and no library is listed.
C18_Witness ==
  /\ as_needed
  /\ undefs = {[sym |-> "fn1", weak |-> TRUE]}
  /\ resolved = undefs
  /\ dt_needed = << >>

(***************************************************************************)
(* Concurrent scans.  Every section has a worker; a worker runs one scan   *)
(* at a time, and the accesses of its dispatch to the shared state         *)
(* (sym.flags |= bit, file.num_dynrel++, the diagnostics with              *)
(* ctx.has_textrel = true) are steps that interleave with the steps of the *)
(* other workers.  The flags and the counter are atomic: each such access  *)
(* is one step.                                                            *)
(***************************************************************************)
InitScan ==
  /\ ctx \in [shared : BOOLEAN, pie : BOOLEAN, z_text : BOOLEAN,
              warn_textrel : {FALSE}, z_copyreloc : BOOLEAN]
  /\ arch = "X86_64"
  /\ flags = [s \in Symbols |-> {}]
  /\ num_dynrel = [f \in Files |-> 0]
  /\ has_textrel = FALSE
  /\ errors = EmptyBag
  /\ warnings = EmptyBag
  /\ rels = {}
  /\ nscan = 0
  /\ phase = "scan"
  /\ reldyn_offset = [f \in Files |-> 0]
  /\ dynrel = [f \in Files |-> 0]
  /\ reldyn = << >>
  /\ out = [s \in Slots |-> "raw"]
  /\ applied = {}
  /\ last = NoOp
  /\ UndefIdle
  /\ SecIdle
  /\ LinkIdle
  /\ CieIdle
  /\ worker = [w \in Sections |-> Idle]
  /\ want = NoWant

\* The Action that the scan function op finds for the relocation.
ActionOf(op, isec, sym) ==
  CASE op = "scan_abs_rel"     -> get_rel_action(abs_rel_table, sym)
    [] op = "scan_abs_dyn_rel" -> get_abs_dyn_action(sym, isec)
    [] op = "scan_pcrel_rel"   -> get_rel_action(pcrel_table, sym)

\* The accesses of dispatch to the shared state, in the order of the code.
Accesses(action, isec, rel) ==
  CASE action = "NONE"    -> << >>
    [] action = "ERROR"   -> <<"error">>
    [] action = "COPYREL" -> <<"copyrel_check", "flag">>
    [] action = "PLT"     -> <<"flag">>
    [] action = "CPLT"    -> <<"flag">>
    [] action = "DYNREL"  -> <<"check_textrel", "count">>
    [] action = "BASEREL" -> IF ~is_relr_reloc(isec, rel)
                             THEN <<"check_textrel", "count">>
                             ELSE <<"check_textrel">>

\* The bit that sym.flags |= ... sets for the Action.
BitOf(action) ==
  CASE action = "COPYREL" -> "NEEDS_COPYREL"
    [] action = "PLT"     -> "NEEDS_PLT"
    [] action = "CPLT"    -> "NEEDS_CPLT"

\* What the relocations scanned so far ask for, with one more.
Wanted(isec, sym, action, rel) ==
  [flags |-> IF action \in {"COPYREL", "PLT", "CPLT"}
             THEN [want.flags EXCEPT ![sym] = @ \cup {BitOf(action)}]
             ELSE want.flags,
   num_dynrel |-> IF action = "DYNREL"
                     \/ (action = "BASEREL" /\ ~is_relr_reloc(isec, rel))
                  THEN [want.num_dynrel EXCEPT ![file(isec)] = @ + 1]
                  ELSE want.num_dynrel,
   has_textrel |-> \/ want.has_textrel
                   \/ (action \in {"DYNREL", "BASEREL"} /\ ~SHF_WRITE(isec))]

\* The worker of a section enters scan_abs_rel, scan_abs_dyn_rel or
\* scan_pcrel_rel for one relocation and finds its Action.
scan_begin(isec, op, sym, rel) ==
  /\ phase = "scan"
  /\ nscan < MaxRels
  /\ worker[isec] = Idle
  /\ LET action == ActionOf(op, isec, sym)
         todo == Accesses(action, isec, rel)
     IN  /\ worker' = [worker EXCEPT ![isec] =
                         IF todo = << >> THEN Idle
                         ELSE [pc |-> "dispatch", sym |-> sym,
                               action |-> action, todo |-> todo]]
         /\ want' = Wanted(isec, sym, action, rel)
  /\ nscan' = nscan + 1
  /\ UNCHANGED <<ctx, arch, rels, phase, last>>
  /\ UNCHANGED scanState
  /\ UNCHANGED applyState
  /\ UNCHANGED <<undefVars, secVars, linkVars, cieVars>>

\* file.num_dynrel++ as a store of 1.
fetch_add_store_one(f) ==
  /\ num_dynrel' = [num_dynrel EXCEPT ![f] = 1]
  /\ UNCHANGED <<flags, has_textrel, errors, warnings>>

\* file.num_dynrel++
fetch_add(f) ==
  /\ num_dynrel' = [num_dynrel EXCEPT ![f] = @ + 1]
  /\ UNCHANGED <<flags, has_textrel, errors, warnings>>

\* sym.flags |= bit
fetch_or(sym, bit) ==
  /\ flags' = [flags EXCEPT ![sym] = @ \cup {bit}]
  /\ UNCHANGED <<num_dynrel, has_textrel, errors, warnings>>

\* case COPYREL up to sym.flags |= NEEDS_COPYREL: the diagnostics.
copyrel_check(sym) ==
  /\ errors' = IF ~ctx.z_copyreloc
                THEN Emit(errors, error(sym))
                ELSE IF st_visibility(sym) = "STV_PROTECTED"
                THEN Emit(errors, protected_error(sym))
                ELSE errors
  /\ UNCHANGED <<flags, num_dynrel, has_textrel, warnings>>

\* The next access of a worker's dispatch.
dispatch_step(isec) ==
  /\ worker[isec] # Idle
  /\ LET w == worker[isec]
         access == Head(w.todo)
     IN  /\ CASE access = "error" -> dispatch_ERROR(isec, w.sym)
               [] access = "copyrel_check" -> copyrel_check(w.sym)
               [] access = "flag" -> fetch_or(w.sym, BitOf(w.action))
               [] access = "check_textrel" ->
                    check_textrel(isec, w.sym) /\ UNCHANGED <<flags, num_dynrel>>
               [] access = "count" -> fetch_add(file(isec))
         /\ worker' = [worker EXCEPT ![isec] =
                         IF Tail(w.todo) = << >> THEN Idle
                         ELSE [w EXCEPT !.todo = Tail(w.todo)]]
  /\ UNCHANGED <<ctx, arch, rels, nscan, phase, last, want>>
  /\ UNCHANGED applyState
  /\ UNCHANGED <<undefVars, secVars, linkVars, cieVars>>

NextScan ==
  \/ \E isec \in Sections, op \in ScanOps, sym \in Symbols :
       \E rel \in ElfRels(isec) : scan_begin(isec, op, sym, rel)
  \/ \E isec \in Sections : dispatch_step(isec)

SpecScan == InitScan /\ [][NextScan]_vars

(***************************************************************************)
(* C19: no update of a concurrent scan is lost.  Whenever all workers are  *)
(* through, so at the end of the scan pass, the flags of every symbol are  *)
(* the union of the bits that the scanned relocations asked for, the       *)
(* num_dynrel of every file is the number of its DYNREL relocations and of *)
(* its BASEREL relocations that are not RELR, and has_textrel is the OR of *)
(* the text-relocation checks: the result of any sequential order.         *)
(***************************************************************************)
C19_Quiescent == \A w \in Sections : worker[w] = Idle

C19_NoLostUpdate ==
  C19_Quiescent =>
    /\ flags = want.flags
    /\ num_dynrel = want.num_dynrel
    /\ has_textrel = want.has_textrel

\* Two workers have counted a dynamic relocation each for the same file,
\* one of them in a read-only section, and both are through.
C19_Witness ==
  /\ C19_Quiescent
  /\ nscan = 2
  /\ num_dynrel["f1"] = 2
  /\ has_textrel

(***************************************************************************)
(* C20: in the apply pass the cursor of every worker starts at the offset  *)
(* computed from the counters of the scan; under any interleaving of the   *)
(* applies no slot of the dynamic-relocation stream is written twice, by   *)
(* the same or by another worker, every entry goes into the range reserved *)
(* for its file, and when all applies are through every reserved slot has  *)
(* been written once.                                                      *)
(***************************************************************************)
\* The slots reserved for the dynamic relocations of a file.
C20_Reserved(f) == reldyn_offset[f]..(reldyn_offset[f] + num_dynrel[f] - 1)

C20_Ranges ==
  phase = "apply" =>
    /\ \A f, g \in Files : f # g => C20_Reserved(f) \cap C20_Reserved(g) = {}
    /\ DOMAIN reldyn = UNION {C20_Reserved(f) : f \in Files}
    /\ \A f \in Files :
         dynrel[f] \in reldyn_offset[f]..(reldyn_offset[f] + num_dynrel[f])
    /\ Written = UNION {reldyn_offset[f]..(dynrel[f] - 1) : f \in Files}

C20_WriteStep ==
  ApplyStep =>
    \A i \in DOMAIN reldyn :
      reldyn'[i] # reldyn[i] =>
        /\ reldyn[i] = NoRel
        /\ i = dynrel[file(last'.isec)]
        /\ i \in C20_Reserved(file(last'.isec))

C20_AllWritten == AllApplied => Written = DOMAIN reldyn

C20_DisjointCursors ==
  /\ [](C20_Ranges /\ C20_AllWritten)
  /\ [][C20_WriteStep]_vars

\* The worker of f2 has written its slot, the second of the stream, while
\* the slot of f1 is still empty.
C20_Witness ==
  /\ phase = "apply"
  /\ DOMAIN reldyn = {0, 1}
  /\ reldyn_offset["f2"] = 1
  /\ reldyn[0] = NoRel
  /\ reldyn[1] # NoRel
  /\ dynrel["f2"] = 2

(***************************************************************************)
(* C21: a call of record_undef_error adds exactly one reference-site       *)
(* string, at the end of the entry of the referenced symbol; it creates    *)
(* the entry if there is none, never replaces the list, and touches no     *)
(* other key.  Under any interleaving of the calls the number of strings   *)
(* of a symbol is the number of calls made for it, so the N of "referenced *)
(* N more times" counts every reference beyond the three shown.            *)
(***************************************************************************)
\* The strings stored for a symbol name.
C21_Stored(map, sym_name) ==
  IF sym_name \in DOMAIN map THEN map[sym_name] ELSE << >>

\* The calls made for a symbol name in this link.
C21_Calls(sym_name) == {c \in calls : c.sym = sym_name}

C21_CallStep ==
  \A call \in calls' \ calls :
    /\ DOMAIN undef_errors' = DOMAIN undef_errors \cup {call.sym}
    /\ undef_errors'[call.sym] =
         Append(C21_Stored(undef_errors, call.sym), call.site)
    /\ \A other \in DOMAIN undef_errors \ {call.sym} :
         undef_errors'[other] = undef_errors[other]

C21_Count ==
  \A sym_name \in UndefNames :
    Len(C21_Stored(undef_errors, sym_name)) = Cardinality(C21_Calls(sym_name))

C21_Tail ==
  \A i \in 1..Len(diag_out) :
    LET k == Cardinality(C21_Calls(diag_out[i].text.sym))
    IN  diag_out[i].text.more = IF k > 3 THEN <<k - 3>> ELSE << >>

C21_OneStringPerCall == [][C21_CallStep]_vars /\ [](C21_Count /\ C21_Tail)

\* Calls for foo from sections of two files and a call for bar: foo's
\* entry holds two strings, bar's holds one.
C21_Witness ==
  /\ Cardinality(calls) = 3
  /\ DOMAIN undef_errors = {"bar", "foo"}
  /\ Len(undef_errors["foo"]) = 2
  /\ undef_errors["foo"][1][3] # undef_errors["foo"][2][3]
  /\ Len(undef_errors["bar"]) = 1

(***************************************************************************)
(* C22: DYNREL is chosen only for a symbol that is imported and not        *)
(* absolute, in the scan pass and in the apply pass, and every Action that *)
(* a table lookup returns is one of the cases of the switch that receives  *)
(* it.                                                                     *)
(***************************************************************************)
\* The case labels of the switch of dispatch and of apply_abs_dyn_rel.
C22_DispatchCases ==
  {"NONE", "ERROR", "COPYREL", "PLT", "CPLT", "DYNREL", "BASEREL"}

C22_ApplyCases == {"COPYREL", "CPLT", "NONE", "BASEREL", "DYNREL"}

\* What assert(sym.is_imported) tests, together with the column's own
\* precondition.
C22_Imported(sym) == is_imported(sym) /\ ~is_absolute(sym)

\* The Action that a lookup returned for sym is a case of the switch that
\* receives it, and is DYNREL only if sym is imported.
C22_Safe(sym, action, cases) ==
  /\ action \in cases
  /\ action = "DYNREL" => C22_Imported(sym)

\* Every lookup the four callers can make for the output being linked. The
\* Action of get_abs_dyn_action goes to the switch of dispatch and to the
\* switch of apply_abs_dyn_rel, whose cases are among those of dispatch.
C22_LookupsSafe ==
  /\ C22_ApplyCases \subseteq C22_DispatchCases
  /\ \A sym \in Symbols :
       /\ C22_Safe(sym, get_rel_action(abs_rel_table, sym), C22_DispatchCases)
       /\ C22_Safe(sym, get_rel_action(pcrel_table, sym), C22_DispatchCases)
       /\ \A isec \in Sections :
            C22_Safe(sym, get_abs_dyn_action(sym, isec), C22_ApplyCases)

\* In every table DYNREL stands only in the two imported columns, and these
\* columns are selected exactly for imported symbols that are not absolute.
C22_Columns ==
  /\ \A table \in {abs_rel_table, toc_table, abs_dyn_table, pcrel_table} :
       \A row \in 1..3 : \A col \in 1..4 :
         table[row][col] = "DYNREL" => col \in {3, 4}
  /\ \A sym \in Symbols : get_sym_type(sym) \in {2, 3} <=> C22_Imported(sym)

\* The call that was made last took a case of its switch, and took the
\* DYNREL case only with an imported symbol.
C22_LastCall ==
  /\ last.op \in ScanOps =>
       /\ last.action \in C22_DispatchCases
       /\ last.action = "DYNREL" => C22_Imported(last.sym)
  /\ last.op = "apply_abs_dyn_rel" =>
       /\ last.action \in C22_ApplyCases
       /\ last.action = "DYNREL" => C22_Imported(last.sym)

\* C22: the assertion of case DYNREL cannot fail and unreachable() is not
\* reached: every lookup of every table stays inside its switch, and DYNREL
\* is looked up, dispatched and applied only for imported, non-absolute
\* symbols.
C22_DynrelOnlyImported == C22_LookupsSafe /\ C22_Columns /\ C22_LastCall

\* A position-dependent PPC64 link has applied DYNREL to a relocation of
\* .toc, the entry that only the .toc table has.
C22_Witness ==
  /\ last.op = "apply_abs_dyn_rel"
  /\ last.action = "DYNREL"
  /\ arch = "PPC64" /\ last.isec = "toc"
  /\ ~ctx.shared /\ ~ctx.pie
  /\ last.sym = "sData"

(***************************************************************************)
(* CieRecord<E>::equals: the comparison that deduplicates CIE records.     *)
(***************************************************************************)
\* The longest relocation list of a record.
MaxCieRels == 2

\* file.symbols: the symbol a symbol index of the file resolves to. The two
\* files number the same two symbols in opposite orders.
symbols(f) ==
  IF f = "f1" THEN << "personality", "lsda" >> ELSE << "lsda", "personality" >>

\* The relocations a record at input_offset can carry: one relocation and
\* the four that differ from it in one field.
CieRels(input_offset) ==
  {[r_offset |-> input_offset, r_type |-> "R_64", r_sym |-> 1, r_addend |-> 0],
   [r_offset |-> input_offset + 1, r_type |-> "R_64", r_sym |-> 1,
    r_addend |-> 0],
   [r_offset |-> input_offset, r_type |-> "R_PC32", r_sym |-> 1,
    r_addend |-> 0],
   [r_offset |-> input_offset, r_type |-> "R_64", r_sym |-> 2, r_addend |-> 0],
   [r_offset |-> input_offset, r_type |-> "R_64", r_sym |-> 1, r_addend |-> 1]}

\* The CIE records of the two files.
CieRecords ==
  UNION {
    {[file |-> f, input_offset |-> off, contents |-> c, rels |-> r] :
       r \in UNION {[1..n -> CieRels(off)] : n \in 0..MaxCieRels}}
    : <<f, off, c>> \in Files \X Offsets \X {<<"zR">>, <<"zPLR">>} }

\* CieRecord<E>::get_contents
get_contents(cie) == cie.contents

\* CieRecord<E>::get_rels
get_rels(cie) == cie.rels

\* InputSection<E>::get_addend
get_addend(rel) == rel.r_addend

\* equals comparing the symbol indices of the relocations, not the symbols
\* the indices resolve to.
equals_by_index(this, other) ==
  IF get_contents(this) # get_contents(other) THEN FALSE
  ELSE LET x == get_rels(this)
           y == get_rels(other)
       IN  IF Len(x) # Len(y) THEN FALSE
           ELSE \A i \in 1..Len(x) :
                  ~ \/ ToWord(x[i].r_offset - this.input_offset)
                         # ToWord(y[i].r_offset - other.input_offset)
                    \/ x[i].r_type # y[i].r_type
                    \/ x[i].r_sym # y[i].r_sym
                    \/ get_addend(x[i]) # get_addend(y[i])

\* CieRecord<E>::equals
equals(this, other) ==
  IF get_contents(this) # get_contents(other) THEN FALSE
  ELSE LET x == get_rels(this)
           y == get_rels(other)
       IN  IF Len(x) # Len(y) THEN FALSE
           ELSE \A i \in 1..Len(x) :
                  ~ \/ ToWord(x[i].r_offset - this.input_offset)
                         # ToWord(y[i].r_offset - other.input_offset)
                    \/ x[i].r_type # y[i].r_type
                    \/ symbols(this.file)[x[i].r_sym]
                         # symbols(other.file)[y[i].r_sym]
                    \/ get_addend(x[i]) # get_addend(y[i])

\* Two records have been read and are about to be compared.
InitCie ==
  /\ PassIdle
  /\ UndefIdle
  /\ SecIdle
  /\ LinkIdle
  /\ ConcIdle
  /\ cie_this \in CieRecords
  /\ cie_other \in CieRecords
  /\ cie_result = << >>

\* The call cie_this.equals(cie_other).
CieEquals ==
  /\ cie_result = << >>
  /\ cie_result' = << equals(cie_this, cie_other) >>
  /\ UNCHANGED <<cie_this, cie_other>>
  /\ UNCHANGED <<passVars, undefVars, secVars, linkVars, concVars>>

NextCie == CieEquals

SpecCie == InitCie /\ [][NextCie]_vars

(***************************************************************************)
(* C23: equals returns true exactly for records with equal raw contents    *)
(* and pointwise equivalent relocations (relative offset, type, resolved   *)
(* symbol, addend), and it is an equivalence relation on CIE records.      *)
(***************************************************************************)
\* What the comparison may depend on: the raw contents and, per relocation,
\* the offset from the record's start, the type, the resolved symbol and
\* the addend.
C23_Key(cie) ==
  << cie.contents,
     [i \in 1..Len(cie.rels) |->
        << cie.rels[i].r_offset - cie.input_offset,
           cie.rels[i].r_type,
           symbols(cie.file)[cie.rels[i].r_sym],
           cie.rels[i].r_addend >>] >>

\* The call returned true exactly when the two records have the same key.
C23_Iff ==
  cie_result # << >> =>
    (cie_result[1] <=> C23_Key(cie_this) = C23_Key(cie_other))

\* Reflexive and symmetric on the two records, transitive through every
\* third record.
C23_Equivalence ==
  /\ equals(cie_this, cie_this)
  /\ equals(cie_this, cie_other) <=> equals(cie_other, cie_this)
  /\ equals(cie_this, cie_other) =>
       \A third \in CieRecords :
         equals(cie_other, third) => equals(cie_this, third)

\* C23: equals is true iff contents and relocation lists agree pointwise
\* up to the records' positions and symbol numbering, and it is reflexive,
\* symmetric and transitive.
C23_EqualsIsEquivalence == C23_Iff /\ C23_Equivalence

\* Two records of different files, at different offsets and naming their
\* symbol by different indices, were found equal.
C23_Witness ==
  /\ cie_result = << TRUE >>
  /\ cie_this.file # cie_other.file
  /\ cie_this.input_offset # cie_other.input_offset
  /\ Len(cie_this.rels) = 2
  /\ cie_this.rels[1].r_sym # cie_other.rels[1].r_sym
  /\ cie_this.rels[2].r_offset # cie_other.rels[2].r_offset

====
